----------------------------- MODULE MCNotices -----------------------------
(* Instances of Notices for TLC.  A decided request shares nothing with the  *)
(* event, and a broadcast only reads it: each is explored while the others    *)
(* rest.  Once a fault has excused everybody nothing is left to check.       *)
EXTENDS Notices, TLC

CONSTANT MaxQueue   \* bound: tasks the broker holds at once

Symmetry == Permutations(Crew)

MCNext ==
  /\ NoticeNext
  /\ excused # People
  /\ Cardinality(queue') <= MaxQueue
  /\ willing' # willing => Settled /\ inbox = {} /\ asked = 0
  /\ decided' # {} => plan' = 0 /\ asked' = 0
  /\ asked' > 0 =>
       /\ plan' = 0 /\ decided' = {}
       /\ reg' = reg
       /\ asked = 0 => Settled /\ excused = {}

MCSpec == NoticeInit /\ [][MCNext]_noticeVars
=============================================================================
