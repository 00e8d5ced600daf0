---------------------------- MODULE MCSessionLog ----------------------------
(***************************************************************************)
(* Two session files, one of which may hold an older session.              *)
(***************************************************************************)
EXTENDS SessionLog

CONSTANTS f1, f2, none

\* The paths are interchangeable.
SamePaths == Permutations(Files)

SomeKinds == {"talk", "label", "compaction", "summary"}

\* A message of an older version; a conversation with a label in its midst.
EarlierFiles ==
    {[made |-> TRUE, open |-> FALSE, old |-> TRUE,
      lines |-> <<Header, Line(1, NoId, "talk", NoId)>>],
     [made |-> TRUE, open |-> FALSE, old |-> FALSE,
      lines |-> <<Header, Line(1, NoId, "talk", NoId), Line(2, 1, "label", 1),
                  Line(3, 2, "talk", NoId)>>]}
=============================================================================
