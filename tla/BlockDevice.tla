---------------------------- MODULE BlockDevice ----------------------------
(***************************************************************************)
(* What the file system expects of FTL_WriteSectors and FTL_ReadSectors    *)
(* (HARDWARE/NAND/ftl.c), without blocks, tables or copies: an array of    *)
(* sectors.  A write changes only the sectors it names, to the values it   *)
(* was given, and answers "ok" only when all of them are stored.           *)
(***************************************************************************)
EXTENDS Integers, Sequences

CONSTANTS Sector,   \* sector numbers
          Content   \* what a sector may hold

VARIABLES disk,     \* disk[s]: what reading sector s gives
          req,      \* the write under way: its first sector and its data
          ans       \* the answer of the last write, until it is forgotten

NoReq == [at |-> 0, buf |-> <<>>]

Covered == {s \in Sector : s >= req.at /\ s < req.at + Len(req.buf)}
NewValue(s) == req.buf[s - req.at + 1]

Init == disk \in [Sector -> Content] /\ req = NoReq /\ ans = "none"

Begin ==
    /\ req = NoReq
    /\ req' # NoReq /\ ans' = "none"
    /\ UNCHANGED disk

\* Some sectors of the write under way take their new value.
Store ==
    /\ \A s \in Sector : disk'[s] = disk[s] \/ (s \in Covered /\ disk'[s] = NewValue(s))
    /\ DOMAIN disk' = Sector
    /\ UNCHANGED <<req, ans>>

Return ==
    /\ req # NoReq /\ req' = NoReq
    /\ \/ ans' \in {"error", "none"}       \* refused, or cut off by a power loss
       \/ ans' = "ok" /\ \A s \in Covered : disk'[s] = NewValue(s)
    /\ UNCHANGED disk

Forget == req = NoReq /\ ans' = "none" /\ UNCHANGED <<disk, req>>

Next == Begin \/ Store \/ Return \/ Forget

Spec == Init /\ [][Next]_<<disk, req, ans>>
=============================================================================
