---------------------------- MODULE BoundedFifo ----------------------------
(***************************************************************************)
(* A bounded first-in first-out channel: what the SPSC ring of the         *)
(* scheduler and the MPMC queue of the block pool promise their callers.   *)
(* An item enters at most once and leaves in the order it entered.         *)
(***************************************************************************)
EXTENDS Naturals, Sequences

CONSTANTS Item, Bound

VARIABLES
  line,   \* items in the channel, oldest first
  out     \* items handed out, in order

fifoVars == <<line, out>>

Used == {line[i] : i \in DOMAIN line} \cup {out[i] : i \in DOMAIN out}

Init ==
  /\ line = <<>>
  /\ out = <<>>

Put(x) ==
  /\ x \notin Used
  /\ Len(line) < Bound
  /\ line' = Append(line, x)
  /\ UNCHANGED out

Take ==
  /\ line # <<>>
  /\ out' = Append(out, Head(line))
  /\ line' = Tail(line)

Next == Take \/ \E x \in Item : Put(x)

Spec == Init /\ [][Next]_fifoVars
=============================================================================
