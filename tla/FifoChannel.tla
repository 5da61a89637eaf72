---------------------------- MODULE FifoChannel ----------------------------
(***************************************************************************)
(* What the producer/consumer queue of the engine promises its callers:    *)
(* items come out once each, in the order they went in, and as long as the *)
(* channel is open whatever is in it is eventually taken.  Closing stands  *)
(* for the stop flag: from then on the consumers need not call again, so   *)
(* the rest may stay inside.                                               *)
(*                                                                         *)
(* ThreadSafeQueue refines this module; EventProcessor and TcpServer use   *)
(* its operators where they call the queue.                                *)
(***************************************************************************)
EXTENDS Sequences

CONSTANT Items      \* everything that can be put into the channel

VARIABLES
  chan,             \* the items inside, oldest first
  taken,            \* history: the items taken so far, oldest first
  open              \* FALSE once the stop flag is set

chanVars == <<chan, taken, open>>

ChannelTypeOK ==
  /\ chan \in Seq(Items)
  /\ taken \in Seq(Items)
  /\ open \in BOOLEAN

Init ==
  /\ chan = <<>>
  /\ taken = <<>>
  /\ open = TRUE

Put(item) ==
  /\ chan' = Append(chan, item)
  /\ UNCHANGED <<taken, open>>

Take ==
  /\ chan # <<>>
  /\ chan' = Tail(chan)
  /\ taken' = Append(taken, Head(chan))
  /\ UNCHANGED open

Close ==
  /\ open' = FALSE
  /\ UNCHANGED <<chan, taken>>

Next ==
  \/ \E item \in Items : Put(item)
  \/ Take
  \/ Close

SafeSpec == Init /\ [][Next]_chanVars

Spec == SafeSpec /\ WF_chanVars(open /\ Take)

=============================================================================
