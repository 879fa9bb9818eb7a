------------------------------ MODULE AssetTag ------------------------------
(***************************************************************************)
(* What the agent promises of a host's asset tag.  It is the tag that was  *)
(* deployed last, or the one the TPM held before the agent was installed,  *)
(* however often the NV index is replaced.  Only what happens while an     *)
(* index is being replaced, a failure or a deployment, puts the tag in     *)
(* doubt, and the next deployment outside a replacement settles it.        *)
(***************************************************************************)
CONSTANTS
  Tags,    \* asset tags that HVS can deploy
  NoTag    \* the host has no tag

VARIABLES
  tag,        \* the tag of the host
  replacing,  \* define-tag-index has read the tag and not yet written it back
  inDoubt     \* the tag need not be the one that was deployed last

vars == <<tag, replacing, inDoubt>>

TagsOrNone == Tags \cup {NoTag}

Init ==
  /\ tag \in TagsOrNone
  /\ replacing = FALSE
  /\ inDoubt = FALSE

Begin ==
  /\ ~replacing
  /\ replacing' = TRUE
  /\ UNCHANGED <<tag, inDoubt>>

\* The index is written, or the replacement is given up while the old one is
\* still there.
End ==
  /\ replacing
  /\ replacing' = FALSE
  /\ UNCHANGED <<tag, inDoubt>>

\* The replacement fails after the old index was released.
Fail ==
  /\ replacing
  /\ replacing' = FALSE
  /\ inDoubt' = TRUE
  /\ tag' \in TagsOrNone

Deploy(t) ==
  /\ ~replacing
  /\ tag' = t
  /\ inDoubt' = FALSE
  /\ UNCHANGED replacing

\* The tag that is written back may win.
DeployWhileReplacing(t) ==
  /\ replacing
  /\ tag' \in {tag, t}
  /\ inDoubt' \in BOOLEAN
  /\ inDoubt' \/ tag' = t
  /\ UNCHANGED replacing

\* A deployment that came in between is overwritten.
Overwrite ==
  /\ replacing /\ inDoubt
  /\ tag' \in TagsOrNone
  /\ UNCHANGED <<replacing, inDoubt>>

Clear ==
  /\ tag' = NoTag
  /\ replacing' = FALSE
  /\ inDoubt' = FALSE

Next ==
  \/ Begin \/ End \/ Fail \/ Overwrite \/ Clear
  \/ \E t \in Tags : Deploy(t) \/ DeployWhileReplacing(t)

Spec == Init /\ [][Next]_vars
=============================================================================
