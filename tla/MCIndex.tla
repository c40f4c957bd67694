------------------------------ MODULE MCIndex ------------------------------
EXTENDS IndexQuery

CONSTANTS k1, k2, room, type, v1, v2

\* No label, one label, two labels one of which shares its value.
MCLabelLists == {{}, {<<room, v1>>}, {<<room, v2>>, <<type, v1>>}}

MCFilter ==
  [label : Label, values : {{}, {v1}, {v2}}, list : {FALSE}, negated : BOOLEAN]
  \cup [label : Label, values : {{}, {v1, v2}}, list : {TRUE}, negated : BOOLEAN]
=============================================================================
