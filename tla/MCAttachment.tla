---------------------------- MODULE MCAttachment ----------------------------
(***************************************************************************)
(* Instances of Attachment: two servers that both may want the device.     *)
(***************************************************************************)
EXTENDS Attachment

CONSTANTS s1, s2, a1, a2, a3

At == [s \in {s1, s2} |-> IF s = s1 THEN a1 ELSE a2]

RootOrUser == { Paths, {Fallback} }
Root == { Paths }
AnyRights == { {}, {Fallback}, Paths }

Anywhere == {"booting", "search", "announce", "farewell", "serving", "leaving"}
OnceUp == Anywhere \ {"booting"}

NotPinned == { None }
NoEdits == { }
PinnedTo2 == { a2 }
=============================================================================
