-------------------------- MODULE SendWindowProofs ---------------------------
(***************************************************************************)
(* The send window implements a FIFO channel, for any size of the window,  *)
(* any distance of the signals and any number of requests:                 *)
(* Spec => C!Spec.                                                         *)
(*                                                                         *)
(* The inductive invariant says that the posted work requests, those of    *)
(* the batch and the waiting requests carry, in this order, exactly the    *)
(* requests that were accepted and not sent (Chained), and that requests   *)
(* wait only while the window is full: a completion frees as many places   *)
(* as its drain may fill (Window).                                         *)
(***************************************************************************)
EXTENDS SendWindow, SequenceTheorems, TLAPS

WRs ==
    {wr \in [op : Op, lo : Nat, hi : Nat, slot : Int, signaled : BOOLEAN,
             ns : Int, nw : Int] :
        wr.lo <= wr.hi /\ (wr.signaled => wr.ns + wr.nw >= 1)}

Types ==
    /\ slot_head \in Int /\ slot_tail \in Int
    /\ pending_msg \in Int /\ pending_send_msg \in Int
    /\ to_signaled_send_msg \in Int /\ to_signaled_w_r_msg \in Int
    /\ pending_requests \in Seq([op : Op, id : Nat, signaled : BOOLEAN])
    /\ drain \in [on : BOOLEAN, n : Nat]
    /\ batch \in Seq(WRs) /\ sq \in Seq(WRs)
    /\ comps \in Seq({wr \in WRs : wr.signaled})
    /\ accepted \in Nat /\ sent \in Seq(Nat)

Window ==
    /\ to_signaled_send_msg + to_signaled_w_r_msg <= pending_msg
    /\ Unlocked => batch = <<>> /\ pending_msg <= max_pending_msg
    /\ drain.on =>
         /\ Len(batch) <= drain.n
         /\ pending_msg + drain.n - Len(batch) <= max_pending_msg
         /\ pending_requests # <<>> => pending_msg + drain.n - Len(batch) = max_pending_msg

\* The work requests S carry the requests a+1 to b, one after the other.
Chain(S, a, b) ==
    /\ S = <<>> => a = b
    /\ S # <<>> => S[1].lo = a + 1 /\ S[Len(S)].hi = b
    /\ \A k \in 1..(Len(S) - 1) : S[k + 1].lo = S[k].hi + 1
    /\ \A j, k \in 1..Len(S) : j < k => S[j].hi < S[k].lo

Chained ==
    \E a, b \in Nat :
        /\ Chain(sq, Len(sent), a)
        /\ Chain(batch, a, b)
        /\ \A k \in 1..Len(pending_requests) : pending_requests[k].id = b + k
        /\ accepted = b + Len(pending_requests)

Inv == Types /\ Window /\ QueueOnlyWhenFull /\ Chained

USE WindowAssumption

-----------------------------------------------------------------------------
(***************************************************************************)
(* Chains.                                                                 *)
(***************************************************************************)
LEMMA WRFields ==
    \A wr \in WRs : wr.lo \in Nat /\ wr.hi \in Nat /\ wr.lo <= wr.hi
BY DEF WRs

LEMMA ChainBounds ==
    ASSUME NEW S \in Seq(WRs), NEW a \in Nat, NEW b \in Nat, Chain(S, a, b)
    PROVE  a <= b /\ \A k \in 1..Len(S) : S[k].hi <= b
<1>1. \A k \in 1..Len(S) : S[k].lo \in Nat /\ S[k].hi \in Nat /\ S[k].lo <= S[k].hi
  BY WRFields
<1>2. CASE S = <<>>
  BY <1>2 DEF Chain
<1>3. CASE S # <<>>
  <2>1. Len(S) \in Nat \ {0} /\ 1 \in 1..Len(S) /\ Len(S) \in 1..Len(S)
    BY <1>3
  <2>2. \A k \in 1..Len(S) : S[k].hi <= b
    BY <1>1, <1>3, <2>1 DEF Chain
  <2>3. QED
    BY <1>1, <1>3, <2>1, <2>2 DEF Chain
<1>4. QED
  BY <1>2, <1>3

LEMMA ChainAppend ==
    ASSUME NEW S \in Seq(WRs), NEW a \in Nat, NEW b \in Nat, Chain(S, a, b),
           NEW wr \in WRs, wr.lo = b + 1
    PROVE  Append(S, wr) \in Seq(WRs) /\ Chain(Append(S, wr), a, wr.hi)
<1> DEFINE T == Append(S, wr)
<1>1. /\ T \in Seq(WRs) /\ Len(T) = Len(S) + 1 /\ T[Len(S) + 1] = wr /\ Len(S) \in Nat
      /\ \A k \in 1..Len(S) : T[k] = S[k]
      /\ T # <<>> /\ (S = <<>> <=> Len(S) = 0)
  OBVIOUS
<1>2. \A k \in 1..Len(S) : S[k].hi <= b /\ S[k].hi \in Nat
  <2>1. \A k \in 1..Len(S) : S[k].hi <= b
    BY ChainBounds
  <2>2. \A k \in 1..Len(S) : S[k].hi \in Nat
    BY WRFields
  <2>3. QED
    BY <2>1, <2>2
<1> HIDE DEF T
<1>3. T[1].lo = a + 1 /\ T[Len(T)].hi = wr.hi
  <2>1. CASE S = <<>>
    BY <2>1, <1>1 DEF Chain
  <2>2. CASE S # <<>>
    BY <2>2, <1>1 DEF Chain
  <2>3. QED
    BY <2>1, <2>2
<1>4. \A k \in 1..(Len(T) - 1) : T[k + 1].lo = T[k].hi + 1
  <2>1. TAKE k \in 1..(Len(T) - 1)
  <2>2. CASE k = Len(S)
    BY <2>2, <1>1 DEF Chain
  <2>3. CASE k # Len(S)
    <3>1. k \in 1..(Len(S) - 1) /\ k \in 1..Len(S) /\ k + 1 \in 1..Len(S)
      BY <2>3, <1>1
    <3>2. S[k + 1].lo = S[k].hi + 1
      BY <3>1 DEF Chain
    <3>3. QED
      BY <3>1, <3>2, <1>1
  <2>4. QED
    BY <2>2, <2>3
<1>5. \A j, k \in 1..Len(T) : j < k => T[j].hi < T[k].lo
  <2>1. SUFFICES ASSUME NEW j \in 1..Len(T), NEW k \in 1..Len(T), j < k
                 PROVE  T[j].hi < T[k].lo
    OBVIOUS
  <2>2. CASE k = Len(S) + 1
    BY <2>1, <2>2, <1>1, <1>2
  <2>3. CASE k # Len(S) + 1
    <3>1. j \in 1..Len(S) /\ k \in 1..Len(S)
      BY <2>1, <2>3, <1>1
    <3>2. S[j].hi < S[k].lo
      BY <3>1, <2>1 DEF Chain
    <3>3. QED
      BY <3>1, <3>2, <1>1
  <2>4. QED
    BY <2>2, <2>3
<1>6. QED
  BY <1>1, <1>3, <1>4, <1>5 DEF Chain, T

LEMMA ChainTail ==
    ASSUME NEW S \in Seq(WRs), S # <<>>, NEW a \in Nat, NEW b \in Nat, Chain(S, a, b)
    PROVE  /\ Head(S) \in WRs /\ Tail(S) \in Seq(WRs)
           /\ Head(S).lo = a + 1 /\ Head(S).hi <= b
           /\ Chain(Tail(S), Head(S).hi, b)
<1> DEFINE T == Tail(S)
<1>1. /\ T \in Seq(WRs) /\ Len(T) = Len(S) - 1 /\ Len(S) \in Nat \ {0}
      /\ \A k \in 1..Len(T) : T[k] = S[k + 1]
      /\ Head(S) = S[1] /\ 1 \in 1..Len(S) /\ Head(S) \in WRs
  OBVIOUS
<1> HIDE DEF T
<1>0. T = <<>> <=> Len(S) = 1
  BY <1>1
<1>2. Head(S).lo = a + 1 /\ Head(S).hi <= b
  <2>1. S[1].hi <= b
    BY <1>1, ChainBounds
  <2>2. QED
    BY <2>1, <1>1 DEF Chain
<1>3. T = <<>> => S[1].hi = b
  BY <1>0 DEF Chain
<1>4. T # <<>> => T[1].lo = S[1].hi + 1 /\ T[Len(T)].hi = b
  <2>1. SUFFICES ASSUME T # <<>> PROVE T[1].lo = S[1].hi + 1 /\ T[Len(T)].hi = b
    OBVIOUS
  <2>2. 1 \in 1..(Len(S) - 1) /\ T[1] = S[1 + 1] /\ T[Len(T)] = S[Len(S)]
    BY <2>1, <1>0, <1>1
  <2>3. S[1 + 1].lo = S[1].hi + 1 /\ S[Len(S)].hi = b
    BY <2>2, <1>1 DEF Chain
  <2>4. QED
    BY <2>2, <2>3
<1>5. \A k \in 1..(Len(T) - 1) : T[k + 1].lo = T[k].hi + 1
  <2>1. TAKE k \in 1..(Len(T) - 1)
  <2>2. k \in 1..Len(T) /\ k + 1 \in 1..Len(T) /\ k + 1 \in 1..(Len(S) - 1)
    BY <1>1
  <2>3. T[k] = S[k + 1] /\ T[k + 1] = S[(k + 1) + 1]
    BY <2>2, <1>1
  <2>4. S[(k + 1) + 1].lo = S[k + 1].hi + 1
    BY <2>2 DEF Chain
  <2>5. QED
    BY <2>3, <2>4
<1>6. ASSUME NEW j \in 1..Len(T), NEW k \in 1..Len(T), j < k
      PROVE  T[j].hi < T[k].lo
  <2>1. /\ j + 1 \in 1..Len(S) /\ k + 1 \in 1..Len(S) /\ j + 1 < k + 1
        /\ T[j] = S[j + 1] /\ T[k] = S[k + 1]
    BY <1>0, <1>1, <1>6
  <2>2. S[j + 1].hi < S[k + 1].lo
    BY <2>1 DEF Chain
  <2>3. QED
    BY <2>1, <2>2
<1>7. Chain(T, S[1].hi, b)
  BY <1>3, <1>4, <1>5, <1>6 DEF Chain
<1>8. QED
  BY <1>0, <1>1, <1>2, <1>7 DEF T

\* For comparing bounds of requests that the arithmetic need not look into.
LEMMA LeqLess == \A x, y, z \in Nat : x <= y /\ y < z => x < z
  OBVIOUS

LEMMA ChainConcat ==
    ASSUME NEW S \in Seq(WRs), NEW T \in Seq(WRs),
           NEW a \in Nat, NEW b \in Nat, NEW c \in Nat, Chain(S, a, b), Chain(T, b, c)
    PROVE  S \o T \in Seq(WRs) /\ Chain(S \o T, a, c)
<1> DEFINE U == S \o T
<1>1. /\ U \in Seq(WRs) /\ Len(U) = Len(S) + Len(T)
      /\ Len(S) \in Nat /\ Len(T) \in Nat
      /\ \A k \in 1..Len(S) : U[k] = S[k]
      /\ \A k \in 1..Len(U) : k > Len(S) => U[k] = T[k - Len(S)]
      /\ (S = <<>> <=> Len(S) = 0) /\ (T = <<>> <=> Len(T) = 0) /\ (U = <<>> <=> Len(U) = 0)
  OBVIOUS
<1> HIDE DEF U
<1>2. /\ \A k \in 1..Len(S) : S[k].hi <= b /\ S[k].hi \in Nat
      /\ \A k \in 1..Len(T) : T[k].lo \in Nat /\ T[k].hi \in Nat /\ T[k].lo <= T[k].hi
  <2>1. \A k \in 1..Len(S) : S[k].hi <= b
    BY ChainBounds
  <2>2. /\ \A k \in 1..Len(S) : S[k].hi \in Nat
        /\ \A k \in 1..Len(T) : T[k].lo \in Nat /\ T[k].hi \in Nat /\ T[k].lo <= T[k].hi
    BY WRFields
  <2>3. QED
    BY <2>1, <2>2
<1>3. \A k \in 1..Len(T) : b < T[k].lo
  <2>1. TAKE k \in 1..Len(T)
  <2>2. 1 \in 1..Len(T) /\ T[1].lo = b + 1
    BY <1>1 DEF Chain
  <2>3. CASE k = 1
    BY <2>2, <2>3
  <2>4. CASE k # 1
    <3>1. T[1].hi < T[k].lo
      BY <2>2, <2>4, <1>1 DEF Chain
    <3>2. QED
      BY <3>1, <2>2, <1>2
  <2>5. QED
    BY <2>3, <2>4
<1>4. U = <<>> => a = c
  BY <1>1 DEF Chain
<1>5. ASSUME U # <<>>
      PROVE  U[1].lo = a + 1 /\ U[Len(U)].hi = c
  <2>1. U[1].lo = a + 1
    <3>1. CASE S = <<>>
      BY <3>1, <1>1, <1>5 DEF Chain
    <3>2. CASE S # <<>>
      BY <3>2, <1>1, <1>5 DEF Chain
    <3>3. QED
      BY <3>1, <3>2
  <2>2. U[Len(U)].hi = c
    <3>1. CASE T = <<>>
      BY <3>1, <1>1, <1>5 DEF Chain
    <3>2. CASE T # <<>>
      <4>1. Len(U) \in 1..Len(U) /\ Len(U) > Len(S) /\ Len(U) - Len(S) = Len(T)
        BY <3>2, <1>1
      <4>2. U[Len(U)] = T[Len(T)]
        BY <4>1, <1>1
      <4>3. T[Len(T)].hi = c
        BY <3>2 DEF Chain
      <4>4. QED
        BY <4>2, <4>3
    <3>3. QED
      BY <3>1, <3>2
  <2>3. QED
    BY <2>1, <2>2
<1>6. ASSUME NEW k \in 1..(Len(U) - 1)
      PROVE  U[k + 1].lo = U[k].hi + 1
  <2>1. CASE k < Len(S)
    <3>1. /\ k \in 1..(Len(S) - 1) /\ k \in 1..Len(S) /\ k + 1 \in 1..Len(S)
          /\ U[k] = S[k] /\ U[k + 1] = S[k + 1]
      BY <2>1, <1>1
    <3>2. QED
      BY <3>1 DEF Chain
  <2>2. CASE k = Len(S)
    <3>1. /\ k \in 1..Len(S) /\ k + 1 \in 1..Len(U) /\ k + 1 > Len(S)
          /\ (k + 1) - Len(S) = 1 /\ S # <<>> /\ T # <<>>
      BY <2>2, <1>1
    <3>2. U[k] = S[k] /\ U[k + 1] = T[(k + 1) - Len(S)]
      BY <3>1, <1>1
    <3>3. S[k].hi = b /\ T[1].lo = b + 1
      BY <3>1, <2>2 DEF Chain
    <3>4. QED
      BY <3>1, <3>2, <3>3
  <2>3. CASE k > Len(S)
    <3>1. /\ k - Len(S) \in 1..(Len(T) - 1) /\ k \in 1..Len(U) /\ k + 1 \in 1..Len(U)
          /\ U[k] = T[k - Len(S)] /\ U[k + 1] = T[(k + 1) - Len(S)]
          /\ (k + 1) - Len(S) = (k - Len(S)) + 1
      BY <2>3, <1>1
    <3>2. T[(k - Len(S)) + 1].lo = T[k - Len(S)].hi + 1
      BY <3>1 DEF Chain
    <3>3. QED
      BY <3>1, <3>2
  <2>4. QED
    BY <2>1, <2>2, <2>3, <1>1
<1>7. ASSUME NEW j \in 1..Len(U), NEW k \in 1..Len(U), j < k
      PROVE  U[j].hi < U[k].lo
  <2>1. CASE k <= Len(S)
    <3>1. j \in 1..Len(S) /\ k \in 1..Len(S) /\ U[j] = S[j] /\ U[k] = S[k]
      BY <2>1, <1>1, <1>7
    <3>2. QED
      BY <3>1, <1>7 DEF Chain
  <2>2. CASE j <= Len(S) /\ k > Len(S)
    <3>1. j \in 1..Len(S) /\ k - Len(S) \in 1..Len(T) /\ U[j] = S[j] /\ U[k] = T[k - Len(S)]
      BY <2>2, <1>1, <1>7
    <3>2. S[j].hi <= b /\ b < T[k - Len(S)].lo
      BY <3>1, <1>2, <1>3
    <3>3. S[j].hi \in Nat /\ T[k - Len(S)].lo \in Nat
      BY <3>1, <1>2
    <3>4. S[j].hi < T[k - Len(S)].lo
      BY <3>2, <3>3, LeqLess, Zenon
    <3>5. QED
      BY <3>1, <3>4
  <2>3. CASE j > Len(S)
    <3>1. /\ j - Len(S) \in 1..Len(T) /\ k - Len(S) \in 1..Len(T) /\ j - Len(S) < k - Len(S)
          /\ U[j] = T[j - Len(S)] /\ U[k] = T[k - Len(S)]
      BY <2>3, <1>1, <1>7
    <3>2. QED
      BY <3>1 DEF Chain
  <2>4. QED
    BY <2>1, <2>2, <2>3, <1>1
<1>8. Chain(U, a, c)
  BY <1>4, <1>5, <1>6, <1>7 DEF Chain
<1>9. QED
  BY <1>1, <1>8 DEF U

LEMMA Widen ==
    ASSUME NEW wr \in WRs, NEW h \in Nat, wr.hi <= h
    PROVE  /\ [wr EXCEPT !.hi = h] \in WRs
           /\ [wr EXCEPT !.hi = h].lo = wr.lo /\ [wr EXCEPT !.hi = h].hi = h
<1>1. /\ wr \in [op : Op, lo : Nat, hi : Nat, slot : Int, signaled : BOOLEAN, ns : Int, nw : Int]
      /\ wr.lo <= wr.hi /\ (wr.signaled => wr.ns + wr.nw >= 1)
  BY DEF WRs
<1>2. /\ [wr EXCEPT !.hi = h] \in
            [op : Op, lo : Nat, hi : Nat, slot : Int, signaled : BOOLEAN, ns : Int, nw : Int]
      /\ [wr EXCEPT !.hi = h].lo = wr.lo /\ [wr EXCEPT !.hi = h].hi = h
      /\ [wr EXCEPT !.hi = h].signaled = wr.signaled
      /\ [wr EXCEPT !.hi = h].ns = wr.ns /\ [wr EXCEPT !.hi = h].nw = wr.nw
  BY <1>1
<1>3. wr.lo <= h
  BY <1>1
<1>4. QED
  BY <1>1, <1>2, <1>3 DEF WRs

\* The last work request of a chain takes one request more.
LEMMA ChainMerge ==
    ASSUME NEW S \in Seq(WRs), S # <<>>, NEW a \in Nat, NEW b \in Nat, Chain(S, a, b)
    PROVE  /\ [S EXCEPT ![Len(S)].hi = b + 1] \in Seq(WRs)
           /\ Len([S EXCEPT ![Len(S)].hi = b + 1]) = Len(S)
           /\ Chain([S EXCEPT ![Len(S)].hi = b + 1], a, b + 1)
<1> DEFINE n == Len(S)
           wr == [S[n] EXCEPT !.hi = b + 1]
           T == [S EXCEPT ![n].hi = b + 1]
<1>1. n \in Nat \ {0} /\ n \in 1..n /\ S[n] \in WRs
  OBVIOUS
<1>2. S[n].hi = b
  BY DEF Chain
<1>3. wr \in WRs /\ wr.lo = S[n].lo /\ wr.hi = b + 1
  <2>1. b + 1 \in Nat /\ S[n].hi <= b + 1
    BY <1>2
  <2>2. QED
    BY <2>1, <1>1, Widen
<1>4. T = [S EXCEPT ![n] = wr]
  OBVIOUS
<1> HIDE DEF wr, T, n
<1>5. /\ T \in Seq(WRs) /\ Len(T) = n /\ T[n] = wr
      /\ \A k \in 1..n : k # n => T[k] = S[k]
      /\ T # <<>>
  <2>1. n = Len(S)
    BY DEF n
  <2>2. T \in Seq(WRs) /\ Len(T) = Len(S) /\ \A k \in 1..Len(S) : T[k] = IF k = n THEN wr ELSE S[k]
    BY <2>1, <1>1, <1>3, <1>4, ExceptSeq
  <2>3. QED
    BY <2>1, <2>2, <1>1
<1>6. \A k \in 1..n : T[k].lo = S[k].lo
  BY <1>3, <1>5
<1>7. \A k \in 1..n : k < n => T[k].hi = S[k].hi
  BY <1>1, <1>5
<1>8. T[1].lo = a + 1 /\ T[Len(T)].hi = b + 1
  BY <1>1, <1>3, <1>5, <1>6 DEF Chain
<1>9. ASSUME NEW k \in 1..(Len(T) - 1)
      PROVE  T[k + 1].lo = T[k].hi + 1
  <2>1. k \in 1..(Len(S) - 1) /\ k \in 1..n /\ k + 1 \in 1..n /\ k < n
    BY <1>1, <1>5 DEF n
  <2>2. S[k + 1].lo = S[k].hi + 1
    BY <2>1 DEF Chain
  <2>3. QED
    BY <2>1, <2>2, <1>6, <1>7
<1>10. ASSUME NEW j \in 1..Len(T), NEW k \in 1..Len(T), j < k
       PROVE  T[j].hi < T[k].lo
  <2>1. j \in 1..n /\ k \in 1..n /\ j < n
    BY <1>1, <1>5, <1>10
  <2>2. S[j].hi < S[k].lo
    BY <2>1, <1>10 DEF Chain, n
  <2>3. QED
    BY <2>1, <2>2, <1>6, <1>7
<1>11. Chain(T, a, b + 1)
  BY <1>5, <1>8, <1>9, <1>10 DEF Chain
<1>12. QED
  BY <1>5, <1>11 DEF T, n

-----------------------------------------------------------------------------
(***************************************************************************)
(* Steps.                                                                  *)
(***************************************************************************)
\* A new work request is one; what it signals is what had not been signaled,
\* at least itself.
LEMMA NewIsWR ==
    ASSUME Types, Window, NEW o \in Op, NEW i \in Nat, NEW sig \in BOOLEAN,
           NEW wr, wr = NewWorkRequest(o, i, sig), CountMsg(wr)
    PROVE  /\ wr \in WRs /\ wr.lo = i /\ wr.hi = i
           /\ pending_msg' = pending_msg + 1 /\ pending_send_msg' \in Int
           /\ to_signaled_send_msg' \in Int /\ to_signaled_w_r_msg' \in Int
           /\ to_signaled_send_msg' + to_signaled_w_r_msg' <= pending_msg'
<1> DEFINE s == Sends(o)
           signal == sig \/ SignalDue(s)
<1>0. /\ pending_msg \in Int /\ pending_send_msg \in Int
      /\ to_signaled_send_msg \in Int /\ to_signaled_w_r_msg \in Int
      /\ to_signaled_send_msg + to_signaled_w_r_msg <= pending_msg
  BY DEF Types, Window
<1>1. s \in Int /\ SlotOf(o) \in Int
  BY DEF Types, Sends, SlotOf, Op
<1>2. /\ ToSignalSend(s) \in Int /\ ToSignalWR(s) \in Int
      /\ ToSignalSend(s) + ToSignalWR(s)
           = pending_msg + 1 - (to_signaled_send_msg + to_signaled_w_r_msg)
      /\ ToSignalSend(s) + ToSignalWR(s) >= 1
  BY <1>0, <1>1 DEF ToSignalSend, ToSignalWR
<1>3. signal \in BOOLEAN
  BY DEF SignalDue
<1> HIDE DEF signal, s
<1>4. /\ wr = [op |-> o, lo |-> i, hi |-> i, slot |-> SlotOf(o), signaled |-> signal,
               ns |-> IF signal THEN ToSignalSend(s) ELSE 0,
               nw |-> IF signal THEN ToSignalWR(s) ELSE 0]
  BY DEF NewWorkRequest, signal, s
<1>5. /\ wr.lo = i /\ wr.hi = i /\ wr.op = o /\ wr.signaled = signal
      /\ wr.ns \in Int /\ wr.nw \in Int
      /\ signal => wr.ns + wr.nw = pending_msg + 1 - (to_signaled_send_msg + to_signaled_w_r_msg)
      /\ signal => wr.ns + wr.nw >= 1
      /\ ~signal => wr.ns = 0 /\ wr.nw = 0
  BY <1>2, <1>4
<1>6. wr \in WRs
  BY <1>1, <1>2, <1>3, <1>4, <1>5 DEF WRs
<1>7. /\ pending_msg' = pending_msg + 1 /\ pending_send_msg' \in Int
      /\ to_signaled_send_msg' \in Int /\ to_signaled_w_r_msg' \in Int
  BY <1>0, <1>1, <1>5 DEF CountMsg, s
<1>8. to_signaled_send_msg' + to_signaled_w_r_msg' <= pending_msg'
  <2>1. CASE signal
    BY <2>1, <1>0, <1>5 DEF CountMsg
  <2>2. CASE ~signal
    BY <2>2, <1>0, <1>5 DEF CountMsg
  <2>3. QED
    BY <2>1, <2>2
<1>9. QED
  BY <1>5, <1>6, <1>7, <1>8

LEMMA RingTyped ==
    ASSUME Types, NEW o, UseSlot(o)
    PROVE  slot_head' \in Int /\ slot_tail' \in Int
<1>1. slot_head \in Int /\ slot_tail \in Int
  BY DEF Types
<1>2. QED
  BY <1>1 DEF UseSlot, GetFreeSlot, Wrap, ring

\* A request is accepted: it waits, or it is posted while none waits.
LEMMA RdmaKeeps ==
    ASSUME Inv, NEW o \in Op, NEW sig \in BOOLEAN, Rdma(o, sig)
    PROVE  Inv' /\ C!Accept
<1>1. /\ Types /\ Window /\ ~drain.on /\ batch = <<>> /\ pending_msg <= max_pending_msg
      /\ accepted \in Nat /\ pending_msg \in Int
  BY DEF Inv, Types, Window, Rdma, Unlocked
<1>2. PICK i \in Nat : i = accepted + 1
  BY <1>1
<1>3. accepted' = i /\ UNCHANGED <<drain, batch, comps, sent>>
  BY <1>2 DEF Rdma
<1>4. C!Accept
  BY <1>2, <1>3 DEF C!Accept
<1>5. PICK a \in Nat, b \in Nat :
         /\ Chain(sq, Len(sent), a) /\ Chain(batch, a, b)
         /\ \A k \in 1..Len(pending_requests) : pending_requests[k].id = b + k
         /\ accepted = b + Len(pending_requests)
  BY DEF Inv, Chained
<1>6. a = b
  BY <1>1, <1>5 DEF Chain
<1>7. CASE /\ ~WindowOpen
           /\ pending_requests' =
                Append(pending_requests, [op |-> o, id |-> i, signaled |-> sig])
           /\ UNCHANGED <<ring, counters, sq>>
  <2> DEFINE r == [op |-> o, id |-> i, signaled |-> sig]
  <2>1. /\ UNCHANGED <<slot_head, slot_tail, pending_msg, pending_send_msg,
                       to_signaled_send_msg, to_signaled_w_r_msg, sq>>
        /\ pending_msg = max_pending_msg
    BY <1>1, <1>7 DEF ring, counters, WindowOpen
  <2>2. r \in [op : Op, id : Nat, signaled : BOOLEAN] /\ r.id = i
    OBVIOUS
  <2> HIDE DEF r
  <2>3. pending_requests \in Seq([op : Op, id : Nat, signaled : BOOLEAN])
    BY <1>1 DEF Types
  <2>4. /\ pending_requests' \in Seq([op : Op, id : Nat, signaled : BOOLEAN])
        /\ Len(pending_requests) \in Nat
        /\ Len(pending_requests') = Len(pending_requests) + 1
        /\ \A k \in 1..Len(pending_requests) : pending_requests'[k] = pending_requests[k]
        /\ pending_requests'[Len(pending_requests) + 1] = r
    BY <2>2, <2>3, <1>7 DEF r
  <2>5. Types'
    BY <2>1, <2>4, <1>1, <1>3 DEF Types
  <2>6. Window' /\ QueueOnlyWhenFull'
    BY <2>1, <1>1, <1>3 DEF Window, QueueOnlyWhenFull, Unlocked
  <2>7. Chain(sq', Len(sent'), a) /\ Chain(batch', a, b)
    BY <2>1, <1>3, <1>5
  <2>8. accepted' = b + Len(pending_requests')
    BY <2>4, <1>2, <1>3, <1>5
  <2>9. \A k \in 1..Len(pending_requests') : pending_requests'[k].id = b + k
    <3>1. TAKE k \in 1..Len(pending_requests')
    <3>2. CASE k = Len(pending_requests) + 1
      BY <3>2, <2>2, <2>4, <1>2, <1>5
    <3>3. CASE k # Len(pending_requests) + 1
      <4>1. k \in 1..Len(pending_requests)
        BY <3>3, <2>4
      <4>2. QED
        BY <4>1, <2>4, <1>5
    <3>4. QED
      BY <3>2, <3>3
  <2>10. Chained'
    BY <2>7, <2>8, <2>9 DEF Chained
  <2>11. QED
    BY <2>5, <2>6, <2>10, <1>4 DEF Inv
<1>8. CASE /\ WindowOpen
           /\ UseSlot(o)
           /\ CountMsg(NewWorkRequest(o, i, sig))
           /\ sq' = Append(sq, NewWorkRequest(o, i, sig))
           /\ UNCHANGED pending_requests
  <2>1. PICK wr : wr = NewWorkRequest(o, i, sig)
    OBVIOUS
  <2>2. /\ wr \in WRs /\ wr.lo = i /\ wr.hi = i
        /\ pending_msg' = pending_msg + 1 /\ pending_send_msg' \in Int
        /\ to_signaled_send_msg' \in Int /\ to_signaled_w_r_msg' \in Int
        /\ to_signaled_send_msg' + to_signaled_w_r_msg' <= pending_msg'
    BY <2>1, <1>1, <1>8, NewIsWR
  <2>3. slot_head' \in Int /\ slot_tail' \in Int
    BY <1>1, <1>8, RingTyped
  <2>4. pending_requests = <<>> /\ pending_msg < max_pending_msg
    BY <1>1, <1>8 DEF Inv, QueueOnlyWhenFull, WindowOpen, Unlocked
  <2>5. accepted = a /\ wr.lo = a + 1
    BY <2>2, <2>4, <1>2, <1>5, <1>6
  <2>6. sq' \in Seq(WRs) /\ Chain(sq', Len(sent), i) /\ sent \in Seq(Nat)
    <3>1. sq \in Seq(WRs) /\ sent \in Seq(Nat) /\ Len(sent) \in Nat
      BY <1>1 DEF Types
    <3>2. sq' = Append(sq, wr)
      BY <2>1, <1>8
    <3>3. QED
      BY <3>1, <3>2, <2>2, <2>5, <1>5, ChainAppend
  <2>7. Types'
    BY <2>2, <2>3, <2>6, <1>1, <1>3, <1>8 DEF Types
  <2>8. Window' /\ QueueOnlyWhenFull'
    <3>1. drain' = drain /\ batch' = <<>> /\ pending_requests' = <<>>
      BY <2>4, <1>1, <1>3, <1>8
    <3>2. pending_msg' <= max_pending_msg
      BY <2>2, <2>4, <1>1
    <3>3. QED
      BY <3>1, <3>2, <2>2, <1>1 DEF Window, QueueOnlyWhenFull, Unlocked
  <2>9. /\ Chain(sq', Len(sent'), i) /\ Chain(batch', i, i)
        /\ Len(pending_requests') = 0 /\ accepted' = i
    BY <2>4, <2>6, <1>1, <1>3, <1>8 DEF Chain
  <2>10. Chained'
    <3>1. /\ \A k \in 1..Len(pending_requests') : pending_requests'[k].id = i + k
          /\ accepted' = i + Len(pending_requests')
      BY <2>9
    <3>2. QED
      BY <2>9, <3>1 DEF Chained
  <2>11. QED
    BY <2>7, <2>8, <2>10, <1>4 DEF Inv
<1>9. QED
  BY <1>2, <1>7, <1>8 DEF Rdma

\* The NIC sends the next requests of the chain.
LEMMA TransmitKeeps ==
    ASSUME Inv, Transmit
    PROVE  Inv' /\ C!Deliver
<1>1. /\ sq \in Seq(WRs) /\ sq # <<>> /\ sent \in Seq(Nat) /\ Len(sent) \in Nat
      /\ batch \in Seq(WRs) /\ accepted \in Nat /\ Len(pending_requests) \in Nat
      /\ comps \in Seq({w \in WRs : w.signaled})
  BY DEF Inv, Types, Transmit
<1>2. PICK wr : wr = Head(sq)
  OBVIOUS
<1>3. PICK a \in Nat, b \in Nat :
         /\ Chain(sq, Len(sent), a) /\ Chain(batch, a, b)
         /\ \A k \in 1..Len(pending_requests) : pending_requests[k].id = b + k
         /\ accepted = b + Len(pending_requests)
  BY DEF Inv, Chained
<1>4. /\ wr \in WRs /\ Tail(sq) \in Seq(WRs) /\ wr.lo = Len(sent) + 1 /\ wr.hi <= a
      /\ Chain(Tail(sq), wr.hi, a)
  BY <1>1, <1>2, <1>3, ChainTail
<1>5. wr.lo \in Nat /\ wr.hi \in Nat /\ wr.lo <= wr.hi
  BY <1>4, WRFields
<1>6. PICK n \in Nat \ {0} : n = wr.hi - wr.lo + 1
  BY <1>5
<1>7. /\ sent' = sent \o [k \in 1..n |-> wr.lo + k - 1]
      /\ sq' = Tail(sq)
      /\ comps' = IF wr.signaled THEN Append(comps, wr) ELSE comps
      /\ UNCHANGED <<slot_head, slot_tail, full, pending_msg, pending_send_msg,
                     to_signaled_send_msg, to_signaled_w_r_msg, pending_requests, drain,
                     batch, accepted>>
  BY <1>2, <1>6 DEF Transmit, ring, counters
<1>8. [k \in 1..n |-> wr.lo + k - 1] = [k \in 1..n |-> Len(sent) + k]
  BY <1>1, <1>4
<1>9. sent' = sent \o [k \in 1..n |-> Len(sent) + k]
  BY <1>7, <1>8
<1>10. sent' \in Seq(Nat) /\ Len(sent') = wr.hi
  <2>1. /\ [k \in 1..n |-> Len(sent) + k] \in Seq(Nat)
        /\ Len([k \in 1..n |-> Len(sent) + k]) = n
    BY <1>1
  <2>2. sent' \in Seq(Nat) /\ Len(sent') = Len(sent) + n
    BY <2>1, <1>1, <1>9
  <2>3. QED
    BY <2>2, <1>1, <1>4, <1>5, <1>6
<1>11. n \in 1..(accepted - Len(sent))
  <2>1. a <= b
    BY <1>1, <1>3, ChainBounds
  <2>2. b <= accepted
    BY <1>1, <1>3
  <2>3. wr.hi <= accepted
    BY <2>1, <2>2, <1>1, <1>4, <1>5
  <2>4. n = wr.hi - Len(sent)
    BY <1>1, <1>4, <1>5, <1>6
  <2>5. QED
    BY <2>3, <2>4, <1>1, <1>5
<1>12. C!Deliver
  BY <1>7, <1>9, <1>11 DEF C!Deliver
<1>13. comps' \in Seq({w \in WRs : w.signaled})
  BY <1>1, <1>4, <1>7
<1>14. Types'
  BY <1>4, <1>7, <1>10, <1>13 DEF Inv, Types
<1>15. Window' /\ QueueOnlyWhenFull'
  BY <1>7 DEF Inv, Window, QueueOnlyWhenFull, Unlocked
<1>16. Chained'
  <2>1. Chain(sq', Len(sent'), a) /\ Chain(batch', a, b)
    BY <1>3, <1>4, <1>7, <1>10
  <2>2. QED
    BY <2>1, <1>3, <1>7 DEF Chained
<1>17. QED
  BY <1>12, <1>14, <1>15, <1>16 DEF Inv

\* A completion frees as many places as its drain may fill.
LEMMA SendCompKeeps ==
    ASSUME Inv, SendComp
    PROVE  Inv' /\ UNCHANGED <<accepted, sent>>
<1>1. PICK wc : wc = Head(comps)
  OBVIOUS
<1>2. /\ Types /\ Window /\ ~drain.on /\ comps # <<>>
      /\ comps \in Seq({w \in WRs : w.signaled})
  BY DEF Inv, Types, SendComp, Unlocked
<1>3. wc \in WRs /\ wc.signaled /\ comps' \in Seq({w \in WRs : w.signaled})
  BY <1>1, <1>2 DEF SendComp
<1>4. PICK ns \in Int, nw \in Int : ns = wc.ns /\ nw = wc.nw /\ ns + nw >= 1
  BY <1>3 DEF WRs
<1>0. PICK n \in Nat : n = ns + nw
  BY <1>4
<1>5. /\ pending_msg \in Int /\ pending_send_msg \in Int /\ slot_tail \in Int
      /\ to_signaled_send_msg \in Int /\ to_signaled_w_r_msg \in Int
      /\ to_signaled_send_msg + to_signaled_w_r_msg <= pending_msg
      /\ batch = <<>> /\ pending_msg <= max_pending_msg
  BY <1>2 DEF Types, Window, Unlocked
<1>6. /\ pending_msg' = pending_msg - n /\ pending_send_msg' \in Int /\ slot_tail' \in Int
      /\ to_signaled_send_msg' \in Int /\ to_signaled_w_r_msg' \in Int
      /\ to_signaled_send_msg' + to_signaled_w_r_msg' <= pending_msg'
  <2>1. /\ pending_msg' = pending_msg - (ns + nw)
        /\ pending_send_msg' = pending_send_msg - ns
        /\ slot_tail' = Wrap(slot_tail + ns)
        /\ to_signaled_send_msg' = to_signaled_send_msg - ns
        /\ to_signaled_w_r_msg' = to_signaled_w_r_msg - nw
    BY <1>1, <1>4 DEF SendComp
  <2>2. slot_tail' \in Int
    BY <2>1, <1>5 DEF Wrap
  <2>3. QED
    BY <2>1, <2>2, <1>0, <1>5
<1>7. /\ drain' = [on |-> TRUE, n |-> n]
      /\ UNCHANGED <<slot_head, pending_requests, batch, sq, accepted, sent>>
  BY <1>0, <1>1, <1>4 DEF SendComp
<1>8. Types'
  BY <1>2, <1>3, <1>6, <1>7 DEF Types
<1>9. Window' /\ QueueOnlyWhenFull'
  <2>1. /\ drain'.on /\ drain'.n = n /\ batch' = <<>> /\ Len(batch') = 0
        /\ pending_requests' = pending_requests
    BY <1>5, <1>7
  <2>2. pending_msg' + drain'.n - Len(batch') = pending_msg /\ Len(batch') <= drain'.n
    BY <2>1, <1>5, <1>6
  <2>3. pending_requests # <<>> => pending_msg = max_pending_msg
    BY <1>2 DEF Inv, QueueOnlyWhenFull, Unlocked
  <2>4. QED
    BY <2>1, <2>2, <2>3, <1>5, <1>6 DEF Window, QueueOnlyWhenFull, Unlocked
<1>10. Chained'
  BY <1>7 DEF Inv, Chained, Chain
<1>11. QED
  BY <1>7, <1>8, <1>9, <1>10 DEF Inv

\* The posted work requests continue the chain.
LEMMA DrainPostKeeps ==
    ASSUME Inv, DrainPost
    PROVE  Inv' /\ UNCHANGED <<accepted, sent>>
<1>1. /\ Types /\ Window /\ sq \in Seq(WRs) /\ batch \in Seq(WRs) /\ Len(sent) \in Nat
      /\ drain.on /\ drain.n \in Nat /\ pending_msg \in Int /\ Len(batch) \in Nat
  BY DEF Inv, Types, DrainPost
<1>2. /\ sq' = sq \o batch /\ batch' = <<>> /\ drain' = [on |-> FALSE, n |-> 0]
      /\ pending_requests = <<>> \/ Len(batch) = drain.n
      /\ UNCHANGED <<slot_head, slot_tail, full, pending_msg, pending_send_msg,
                     to_signaled_send_msg, to_signaled_w_r_msg, pending_requests, comps,
                     accepted, sent>>
  BY DEF DrainPost, ring, counters
<1>3. PICK a \in Nat, b \in Nat :
         /\ Chain(sq, Len(sent), a) /\ Chain(batch, a, b)
         /\ \A k \in 1..Len(pending_requests) : pending_requests[k].id = b + k
         /\ accepted = b + Len(pending_requests)
  BY DEF Inv, Chained
<1>4. sq' \in Seq(WRs) /\ Chain(sq', Len(sent), b)
  BY <1>1, <1>2, <1>3, ChainConcat
<1>5. Types'
  BY <1>1, <1>2, <1>4 DEF Types
<1>6. /\ Len(batch) <= drain.n /\ pending_msg + drain.n - Len(batch) <= max_pending_msg
      /\ pending_requests # <<>> => pending_msg + drain.n - Len(batch) = max_pending_msg
  BY <1>1 DEF Window
<1>7. /\ pending_msg <= max_pending_msg
      /\ pending_requests # <<>> => pending_msg = max_pending_msg
  BY <1>1, <1>2, <1>6
<1>8. ~drain'.on
  BY <1>2
<1>9. Window' /\ QueueOnlyWhenFull'
  BY <1>1, <1>2, <1>7, <1>8 DEF Window, QueueOnlyWhenFull, Unlocked
<1>10. Chain(sq', Len(sent'), b) /\ Chain(batch', b, b)
  BY <1>2, <1>4 DEF Chain
<1>11. Chained'
  BY <1>2, <1>3, <1>10 DEF Chained
<1>12. QED
  BY <1>2, <1>5, <1>9, <1>11 DEF Inv

\* The request at the head of the queue is the next one of the chain.
LEMMA NextWaiting ==
    ASSUME Types, pending_requests # <<>>, NEW b \in Nat,
           \A k \in 1..Len(pending_requests) : pending_requests[k].id = b + k,
           accepted = b + Len(pending_requests),
           pending_requests' = Tail(pending_requests), UNCHANGED accepted
    PROVE  /\ Head(pending_requests) \in [op : Op, id : Nat, signaled : BOOLEAN]
           /\ Head(pending_requests).id = b + 1
           /\ pending_requests' \in Seq([op : Op, id : Nat, signaled : BOOLEAN])
           /\ \A k \in 1..Len(pending_requests') : pending_requests'[k].id = (b + 1) + k
           /\ accepted' = (b + 1) + Len(pending_requests')
<1> DEFINE R == [op : Op, id : Nat, signaled : BOOLEAN]
<1>1. pending_requests \in Seq(R)
  BY DEF Types
<1> HIDE DEF R
<1>2. /\ Head(pending_requests) = pending_requests[1] /\ 1 \in 1..Len(pending_requests)
      /\ Head(pending_requests) \in R /\ Len(pending_requests) \in Nat \ {0}
      /\ pending_requests' \in Seq(R) /\ Len(pending_requests') = Len(pending_requests) - 1
      /\ \A k \in 1..Len(pending_requests') : pending_requests'[k] = pending_requests[k + 1]
  BY <1>1
<1>3. \A k \in 1..Len(pending_requests') : pending_requests'[k].id = (b + 1) + k
  <2>1. TAKE k \in 1..Len(pending_requests')
  <2>2. k + 1 \in 1..Len(pending_requests) /\ pending_requests'[k] = pending_requests[k + 1]
    BY <1>2
  <2>3. pending_requests[k + 1].id = b + (k + 1)
    BY <2>2
  <2>4. QED
    BY <2>2, <2>3, <1>2
<1>4. QED
  BY <1>2, <1>3 DEF R

LEMMA DrainMergeKeeps ==
    ASSUME Inv, DrainMerge
    PROVE  Inv' /\ UNCHANGED <<accepted, sent>>
<1>1. /\ Types /\ Window /\ batch \in Seq(WRs) /\ batch # <<>> /\ pending_requests # <<>>
      /\ drain.on
  BY DEF Inv, Types, DrainMerge
<1>2. /\ batch' = [batch EXCEPT ![Len(batch)].hi = Head(pending_requests).id]
      /\ pending_requests' = Tail(pending_requests)
      /\ UNCHANGED <<slot_head, slot_tail, full, pending_msg, pending_send_msg,
                     to_signaled_send_msg, to_signaled_w_r_msg, drain, sq, comps,
                     accepted, sent>>
  BY DEF DrainMerge, ring, counters
<1>3. PICK a \in Nat, b \in Nat :
         /\ Chain(sq, Len(sent), a) /\ Chain(batch, a, b)
         /\ \A k \in 1..Len(pending_requests) : pending_requests[k].id = b + k
         /\ accepted = b + Len(pending_requests)
  BY DEF Inv, Chained
<1>4. /\ Head(pending_requests).id = b + 1
      /\ pending_requests' \in Seq([op : Op, id : Nat, signaled : BOOLEAN])
      /\ \A k \in 1..Len(pending_requests') : pending_requests'[k].id = (b + 1) + k
      /\ accepted' = (b + 1) + Len(pending_requests')
  BY <1>1, <1>2, <1>3, NextWaiting
<1>5. batch' \in Seq(WRs) /\ Len(batch') = Len(batch) /\ Chain(batch', a, b + 1)
  <2>1. batch' = [batch EXCEPT ![Len(batch)].hi = b + 1]
    BY <1>2, <1>4
  <2>2. batch \in Seq(WRs) /\ batch # <<>> /\ Chain(batch, a, b)
    BY <1>1, <1>3
  <2>3. /\ [batch EXCEPT ![Len(batch)].hi = b + 1] \in Seq(WRs)
        /\ Len([batch EXCEPT ![Len(batch)].hi = b + 1]) = Len(batch)
        /\ Chain([batch EXCEPT ![Len(batch)].hi = b + 1], a, b + 1)
    BY <2>2, ChainMerge
  <2>4. QED
    BY <2>1, <2>3
<1>6. Types'
  BY <1>1, <1>2, <1>4, <1>5 DEF Types
<1>7. Window' /\ QueueOnlyWhenFull'
  BY <1>1, <1>2, <1>5 DEF Window, QueueOnlyWhenFull, Unlocked
<1>8. Chained'
  <2>1. Chain(sq', Len(sent'), a) /\ b + 1 \in Nat
    BY <1>2, <1>3
  <2>2. QED
    BY <2>1, <1>4, <1>5 DEF Chained
<1>9. QED
  BY <1>2, <1>6, <1>7, <1>8 DEF Inv

LEMMA DrainNewKeeps ==
    ASSUME Inv, DrainNew
    PROVE  Inv' /\ UNCHANGED <<accepted, sent>>
<1>1. /\ Types /\ Window /\ batch \in Seq(WRs) /\ pending_requests # <<>> /\ drain.on
      /\ Len(batch) < drain.n /\ drain.n \in Nat /\ Len(batch) \in Nat /\ pending_msg \in Int
  BY DEF Inv, Types, DrainNew
<1>2. PICK r : r = Head(pending_requests)
  OBVIOUS
<1>3. PICK wr : wr = NewWorkRequest(r.op, r.id, r.signaled)
  OBVIOUS
<1>4. /\ UseSlot(r.op) /\ CountMsg(wr) /\ batch' = Append(batch, wr)
      /\ pending_requests' = Tail(pending_requests)
      /\ UNCHANGED <<drain, sq, comps, accepted, sent>>
  BY <1>2, <1>3 DEF DrainNew
<1>5. PICK a \in Nat, b \in Nat :
         /\ Chain(sq, Len(sent), a) /\ Chain(batch, a, b)
         /\ \A k \in 1..Len(pending_requests) : pending_requests[k].id = b + k
         /\ accepted = b + Len(pending_requests)
  BY DEF Inv, Chained
<1>6. /\ r \in [op : Op, id : Nat, signaled : BOOLEAN] /\ r.id = b + 1
      /\ pending_requests' \in Seq([op : Op, id : Nat, signaled : BOOLEAN])
      /\ \A k \in 1..Len(pending_requests') : pending_requests'[k].id = (b + 1) + k
      /\ accepted' = (b + 1) + Len(pending_requests')
  BY <1>1, <1>2, <1>4, <1>5, NextWaiting
<1>7. r.op \in Op /\ r.id \in Nat /\ r.signaled \in BOOLEAN
  BY <1>6
<1>8. /\ wr \in WRs /\ wr.lo = b + 1 /\ wr.hi = b + 1
      /\ pending_msg' = pending_msg + 1 /\ pending_send_msg' \in Int
      /\ to_signaled_send_msg' \in Int /\ to_signaled_w_r_msg' \in Int
      /\ to_signaled_send_msg' + to_signaled_w_r_msg' <= pending_msg'
  BY <1>1, <1>3, <1>4, <1>6, <1>7, NewIsWR
<1>9. slot_head' \in Int /\ slot_tail' \in Int
  BY <1>1, <1>4, RingTyped
<1>10. batch' \in Seq(WRs) /\ Chain(batch', a, b + 1)
  BY <1>1, <1>4, <1>5, <1>8, ChainAppend
<1>11. Types'
  BY <1>1, <1>4, <1>6, <1>8, <1>9, <1>10 DEF Types
<1>12. Window' /\ QueueOnlyWhenFull'
  <2>1. /\ Len(batch') = Len(batch) + 1 /\ drain' = drain
        /\ pending_msg + drain.n - Len(batch) = max_pending_msg
    BY <1>1, <1>4 DEF Window
  <2>2. Len(batch') <= drain.n /\ pending_msg' + drain.n - Len(batch') = max_pending_msg
    <3>1. PICK n \in Nat, m \in Nat : n = drain.n /\ m = Len(batch)
      BY <1>1
    <3>2. /\ m < n /\ pending_msg + n - m = max_pending_msg
          /\ Len(batch') = m + 1 /\ pending_msg' = pending_msg + 1
      BY <3>1, <2>1, <1>1, <1>8
    <3>3. m + 1 <= n /\ (pending_msg + 1) + n - (m + 1) = max_pending_msg
      BY <3>2, <1>1
    <3>4. QED
      BY <3>1, <3>2, <3>3
  <2>3. QED
    <3>1. drain'.on /\ drain'.n = drain.n /\ ~Unlocked'
      BY <2>1, <1>1 DEF Unlocked
    <3>2. QED
      BY <3>1, <2>2, <1>8 DEF Window, QueueOnlyWhenFull
<1>13. Chained'
  <2>1. Chain(sq', Len(sent'), a) /\ b + 1 \in Nat
    BY <1>4, <1>5
  <2>2. QED
    BY <2>1, <1>6, <1>10 DEF Chained
<1>14. QED
  BY <1>4, <1>11, <1>12, <1>13 DEF Inv

-----------------------------------------------------------------------------
LEMMA InvInit == Init => Inv /\ C!Init
<1>1. SUFFICES ASSUME Init PROVE Inv /\ C!Init
  OBVIOUS
<1>2. C!Init /\ Types
  BY <1>1 DEF Init, C!Init, Types
<1>3. Window /\ QueueOnlyWhenFull
  BY <1>1 DEF Init, Window, QueueOnlyWhenFull, Unlocked
<1>4. Chained
  <2>1. /\ Chain(sq, Len(sent), 0) /\ Chain(batch, 0, 0)
        /\ \A k \in 1..Len(pending_requests) : pending_requests[k].id = 0 + k
        /\ accepted = 0 + Len(pending_requests)
    BY <1>1 DEF Init, Chain
  <2>2. QED
    BY <2>1 DEF Chained
<1>5. QED
  BY <1>2, <1>3, <1>4 DEF Inv

LEMMA InvNext == Inv /\ [Next]_vars => Inv' /\ [C!Next]_<<accepted, sent>>
<1>1. SUFFICES ASSUME Inv, [Next]_vars PROVE Inv' /\ [C!Next]_<<accepted, sent>>
  OBVIOUS
<1>2. CASE Submit
  <2>1. "SEND" \in Op /\ "WRITE" \in Op
    BY DEF Op
  <2>2. QED
    BY <1>1, <1>2, <2>1, RdmaKeeps DEF Submit, C!Next
<1>3. CASE Transmit
  BY <1>1, <1>3, TransmitKeeps DEF C!Next
<1>4. CASE Poll
  BY <1>1, <1>4, SendCompKeeps, DrainMergeKeeps, DrainNewKeeps, DrainPostKeeps DEF Poll
<1>5. CASE UNCHANGED vars
  <2>1. UNCHANGED <<slot_head, slot_tail, full, pending_msg, pending_send_msg,
                    to_signaled_send_msg, to_signaled_w_r_msg, pending_requests, drain, batch,
                    sq, comps, accepted, sent>>
    BY <1>5 DEF vars, ring, counters
  <2>2. QED
    BY <1>1, <2>1 DEF Inv, Types, Window, QueueOnlyWhenFull, Unlocked, Chained
<1>6. QED
  BY <1>1, <1>2, <1>3, <1>4, <1>5 DEF Next

\* Requests wait only while the window is full (RdmaContext::Rdma and
\* ProcessPendingRequests), for any window: a new request never overtakes one
\* that waits.
THEOREM WaitOnlyWhenFull == Spec => []QueueOnlyWhenFull
<1>1. Inv => QueueOnlyWhenFull
  BY DEF Inv
<1>2. QED
  BY InvInit, InvNext, <1>1, PTL DEF Spec

\* For any window, any distance of the signals and any number of requests, the
\* requests go out exactly once and in the order the callers handed them over,
\* however they wait, are drained in batches and are merged.
THEOREM WindowImplementsChannel == Spec => ImplementsChannel
<1>1. Spec => C!Spec
  BY InvInit, InvNext, PTL DEF Spec, C!Spec
<1>2. QED
  BY <1>1 DEF ImplementsChannel

=============================================================================
