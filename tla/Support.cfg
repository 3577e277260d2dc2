\* Three days of a ticket; an article and two versions of a legal document.
CONSTANTS
  Days = {1, 2, 3}
  Posters = {p1, p2}
  Articles = {article}
  Documents = {old, new}
  Clock = {1, 2}
  PageEditors = {e1}
SPECIFICATION Spec
INVARIANTS AnsweredNotOpen ResolvedTodayCounted PublicPages
PROPERTIES FirstTimeKept
