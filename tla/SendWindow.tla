----------------------------- MODULE SendWindow ------------------------------
(***************************************************************************)
(* The sending side of one RDMA queue pair: class RdmaContext, rdma.cc.    *)
(* At most max_pending_msg work requests may be outstanding; what finds    *)
(* the window full waits in pending_requests.  SENDs are copied into a     *)
(* ring of max_pending_msg send slots.  Only one work request in           *)
(* max_unsignaled_msg is signaled, besides those the caller wants          *)
(* signaled; its completion stands for all the ones before it, whose       *)
(* number it carries in its wr_id.                                         *)
(*                                                                         *)
(* The callers' requests are numbered in the order they take the lock.  A  *)
(* work request carries the requests lo..hi (several SENDs may be merged   *)
(* into one); slot is the send slot it uses, or -1.  Every action is one   *)
(* critical section of the context's lock, except that the drain of        *)
(* pending_requests, done under the lock as well, is split into steps.     *)
(***************************************************************************)
EXTENDS Integers, Sequences

CONSTANTS max_pending_msg, max_unsignaled_msg,
          MaxRequests   \* bound: requests posted by the callers

ASSUME WindowAssumption ==
    /\ max_pending_msg \in Nat \ {0}
    /\ max_unsignaled_msg \in 1..max_pending_msg
    /\ MaxRequests \in Nat

VARIABLES
    slot_head, slot_tail, full,
    pending_msg, pending_send_msg,
    to_signaled_send_msg, to_signaled_w_r_msg,
    pending_requests,
    drain,   \* ProcessPendingRequests: is it running, and its budget n
    batch,   \* the work requests wrs[0..j] it has put together
    sq,      \* work requests posted to the NIC and not completed
    comps,   \* completions of signaled work requests, not polled yet
    accepted,\* number of requests the callers have posted
    sent     \* the requests that the NIC has put on the wire, in order

ring == <<slot_head, slot_tail, full>>
counters == <<pending_msg, pending_send_msg, to_signaled_send_msg,
              to_signaled_w_r_msg>>
vars == <<ring, counters, pending_requests, drain, batch, sq, comps, accepted, sent>>

Init ==
    /\ slot_head = 0 /\ slot_tail = 0 /\ full = FALSE
    /\ pending_msg = 0 /\ pending_send_msg = 0
    /\ to_signaled_send_msg = 0 /\ to_signaled_w_r_msg = 0
    /\ pending_requests = <<>>
    /\ drain = [on |-> FALSE, n |-> 0]
    /\ batch = <<>>
    /\ sq = <<>> /\ comps = <<>>
    /\ accepted = 0
    /\ sent = <<>>

Unlocked == ~drain.on

(***************************************************************************)
(* The slot ring and the signaling, as a SEND or an RDMA write becomes a   *)
(* work request.                                                           *)
(***************************************************************************)
Wrap(n) == IF n >= max_pending_msg THEN n - max_pending_msg ELSE n

\* Mutant: the ring that has filled up looks empty.
GetFreeSlotNotFull ==
    /\ slot_head' = Wrap(slot_head + 1)
    /\ UNCHANGED <<slot_tail, full>>

\* GetFreeSlot_, where a slot is free (see SlotsAccounted).
GetFreeSlot ==
    /\ slot_head' = Wrap(slot_head + 1)
    /\ full' = (full \/ slot_head' = slot_tail)
    /\ UNCHANGED slot_tail

Sends(o) == IF o = "SEND" THEN 1 ELSE 0

\* What has been posted since the last signaled work request, this one (a SEND
\* when s = 1) included.
ToSignalSend(s) == pending_send_msg + s - to_signaled_send_msg
ToSignalWR(s) == pending_msg + 1 - (pending_send_msg + s) - to_signaled_w_r_msg

\* Mutant: only SENDs make a signal due.
SignalDueSends(s) == ToSignalSend(s) = max_unsignaled_msg

SignalDue(s) == ToSignalSend(s) + ToSignalWR(s) = max_unsignaled_msg

\* Mutant: the message is copied to the tail of the ring.
SlotOfTail(o) == IF o = "SEND" THEN slot_tail ELSE -1

SlotOf(o) == IF o = "SEND" THEN slot_head ELSE -1

\* Request number i becomes a work request of its own.
NewWorkRequest(o, i, sig) ==
    LET s == Sends(o)
        signal == sig \/ SignalDue(s)
    IN  [op |-> o, lo |-> i, hi |-> i, slot |-> SlotOf(o), signaled |-> signal,
         ns |-> IF signal THEN ToSignalSend(s) ELSE 0,
         nw |-> IF signal THEN ToSignalWR(s) ELSE 0]

CountMsg(wr) ==
    /\ pending_msg' = pending_msg + 1
    /\ pending_send_msg' = pending_send_msg + Sends(wr.op)
    /\ to_signaled_send_msg' = to_signaled_send_msg + wr.ns
    /\ to_signaled_w_r_msg' = to_signaled_w_r_msg + wr.nw

UseSlot(o) ==
    IF o = "SEND" THEN GetFreeSlot ELSE UNCHANGED ring

(***************************************************************************)
(* Actions.                                                                *)
(***************************************************************************)
WindowOpen == pending_msg < max_pending_msg

\* SubmitRequest (GetFreeSlot and Send under one lock), Write, WriteWithImm:
\* RdmaContext::Rdma.
Rdma(o, sig) ==
    LET i == accepted + 1
        wr == NewWorkRequest(o, i, sig)
    IN  /\ Unlocked
        /\ accepted < MaxRequests
        /\ accepted' = i
        /\ \/ /\ ~WindowOpen
              /\ pending_requests' =
                   Append(pending_requests, [op |-> o, id |-> i, signaled |-> sig])
              /\ UNCHANGED <<ring, counters, sq>>
           \/ /\ WindowOpen
              /\ UseSlot(o)
              /\ CountMsg(wr)
              /\ sq' = Append(sq, wr)
              /\ UNCHANGED pending_requests
        /\ UNCHANGED <<drain, batch, comps, sent>>

\* The NIC executes the next work request; it reports signaled ones.
Transmit ==
    LET wr == Head(sq)
    IN  /\ sq # <<>>
        /\ sent' = sent \o [k \in 1..(wr.hi - wr.lo + 1) |-> wr.lo + k - 1]
        /\ comps' = IF wr.signaled THEN Append(comps, wr) ELSE comps
        /\ sq' = Tail(sq)
        /\ UNCHANGED <<ring, counters, pending_requests, drain, batch, accepted>>

\* SendComp and WriteComp, up to ProcessPendingRequests.
SendComp ==
    LET wc == Head(comps)
    IN  /\ Unlocked /\ comps # <<>>
        /\ comps' = Tail(comps)
        /\ slot_tail' = Wrap(slot_tail + wc.ns)
        /\ full' = (full /\ wc.ns = 0)
        /\ to_signaled_send_msg' = to_signaled_send_msg - wc.ns
        /\ to_signaled_w_r_msg' = to_signaled_w_r_msg - wc.nw
        /\ pending_msg' = pending_msg - (wc.ns + wc.nw)
        /\ pending_send_msg' = pending_send_msg - wc.ns
        /\ drain' = [on |-> TRUE, n |-> wc.ns + wc.nw]
        /\ UNCHANGED <<slot_head, pending_requests, batch, sq, accepted, sent>>

\* The rounds of ProcessPendingRequests.  A SEND may be appended to the SEND
\* before it; it always can become a work request of its own, as it may not
\* fit into the slot.
DrainMerge ==
    LET r == Head(pending_requests)
        last == Len(batch)
    IN  /\ drain.on /\ pending_requests # <<>>
        /\ r.op = "SEND" /\ ~r.signaled
        /\ batch # <<>> /\ batch[last].op = "SEND"
        /\ batch' = [batch EXCEPT ![last].hi = r.id]
        /\ pending_requests' = Tail(pending_requests)
        /\ UNCHANGED <<ring, counters, drain, sq, comps, accepted, sent>>

DrainNew ==
    LET r == Head(pending_requests)
        wr == NewWorkRequest(r.op, r.id, r.signaled)
    IN  /\ drain.on /\ pending_requests # <<>>
        /\ Len(batch) < drain.n
        /\ UseSlot(r.op)
        /\ CountMsg(wr)
        /\ batch' = Append(batch, wr)
        /\ pending_requests' = Tail(pending_requests)
        /\ UNCHANGED <<drain, sq, comps, accepted, sent>>

\* Mutant: what did not fit into the budget is dropped.
DrainPostDrop ==
    /\ drain.on
    /\ pending_requests = <<>> \/ Len(batch) = drain.n
    /\ sq' = sq \o batch
    /\ batch' = <<>>
    /\ drain' = [on |-> FALSE, n |-> 0]
    /\ pending_requests' = <<>>
    /\ UNCHANGED <<ring, counters, comps, accepted, sent>>

\* The loop ends when the queue is empty or a request exceeds the budget.
DrainPost ==
    /\ drain.on
    /\ pending_requests = <<>> \/ Len(batch) = drain.n
    /\ sq' = sq \o batch
    /\ batch' = <<>>
    /\ drain' = [on |-> FALSE, n |-> 0]
    /\ UNCHANGED <<ring, counters, pending_requests, comps, accepted, sent>>

Submit ==
    \/ Rdma("SEND", FALSE)
    \/ \E sig \in BOOLEAN : Rdma("WRITE", sig)

Poll == SendComp \/ DrainMerge \/ DrainNew \/ DrainPost

Next == Submit \/ Transmit \/ Poll

Spec == Init /\ [][Next]_vars

\* The NIC works and the service thread polls.
LiveSpec == Spec /\ WF_vars(Transmit) /\ WF_vars(Poll)

-----------------------------------------------------------------------------
(***************************************************************************)
(* Properties.                                                             *)
(***************************************************************************)
\* What a caller asks for: a SEND, or an RDMA write.
Op == {"SEND", "WRITE"}

\* The slots between tail and head are as many as the SENDs that no completion
\* has accounted for: GetFreeSlot finds a slot whenever the window is open, and
\* tells the empty ring from the full one.
SlotsAccounted ==
    /\ (slot_head - slot_tail - pending_send_msg) % max_pending_msg = 0
    /\ full <=> pending_send_msg = max_pending_msg

\* A slot is not given to a second message before the first one has left.
SlotsNotReused ==
    LET posted == sq \o batch
    IN  \A i, j \in 1..Len(posted) :
            i # j /\ posted[i].op = "SEND" /\ posted[j].op = "SEND"
                => posted[i].slot # posted[j].slot

\* Requests wait only while the window is full, so that a new request never
\* overtakes one that waits.
QueueOnlyWhenFull ==
    Unlocked /\ pending_requests # <<>> => pending_msg = max_pending_msg

C == INSTANCE Channel WITH accepted <- accepted, sent <- sent

\* The window with its slots, batches and signals implements a channel.
ImplementsChannel == C!Spec

\* Every request a caller has handed over is sent.
AllSent == \A k \in 1..MaxRequests : accepted >= k ~> Len(sent) >= k

=============================================================================
