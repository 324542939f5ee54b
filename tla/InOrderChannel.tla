--------------------------- MODULE InOrderChannel ---------------------------
(***************************************************************************)
(* What a reliable reader promises its application, with no protocol: each  *)
(* reader has a cursor, and a step gives it samples that lie between its    *)
(* cursor and a later one.  A sample the cursor has passed is never given,  *)
(* so nothing is given twice or out of order, and a sample passed without   *)
(* being given is lost for good.                                            *)
(***************************************************************************)
EXTENDS Integers

CONSTANTS Readers,  \* the readers of the channel
          Start     \* the cursor of a reader that has heard nothing

VARIABLES cursor,   \* cursor[r]: no sample below it is given to r any more
          received  \* received[r]: samples given to r

ChannelInit ==
    /\ cursor = [r \in Readers |-> Start]
    /\ received = [r \in Readers |-> {}]

\* The cursor moves on and some of the samples it passes are given to r.
Give(r) ==
    /\ cursor' = [cursor EXCEPT ![r] = cursor'[r]]
    /\ cursor[r] <= cursor'[r]
    /\ received' = [received EXCEPT ![r] = received'[r]]
    /\ received[r] \subseteq received'[r]
    /\ \A n \in received'[r] \ received[r] : cursor[r] <= n /\ n < cursor'[r]

ChannelSpec == ChannelInit /\ [][\E r \in Readers : Give(r)]_<<cursor, received>>
=============================================================================
