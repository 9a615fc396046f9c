-------------------------- MODULE ReassemblerProofs --------------------------
(***************************************************************************)
(* The safety of reassembly, for every capacity, stream length and order   *)
(* of arrival. The inductive invariant joins the shape of the interval     *)
(* set, what the circular buffer holds under it, and the closing of the    *)
(* output: none of them is preserved without the others.                   *)
(***************************************************************************)
EXTENDS Reassembler, StreamLemmas

\* All that reassembly keeps, and what the bytes received say of the stream.
IInv ==
    /\ Reassembling(Capacity, Total, rea, out)
    /\ rea.last_index \in {0, Total}
    /\ rea.last_received => rea.last_index = Total
    /\ ClosedWhenComplete

LEMMA Numbers ==
    ASSUME IInv
    PROVE  /\ out.pushed \in Nat /\ out.popped \in Nat /\ Total \in Nat
           /\ out.popped <= out.pushed /\ out.pushed <= Total
           /\ out.pushed <= out.popped + Capacity
           /\ FirstUnacceptable(out) = out.popped + Capacity
BY ReassemblerAssumption, ReassemblingNumbers DEF IInv, Reassembling, Buffering

LEMMA ReceiveStep ==
    ASSUME IInv, NEW first \in Nat, NEW len \in Nat, first + len <= Total,
           NEW last \in BOOLEAN, last => first + len = Total,
           Receive(first, Substring(first, len), last)
    PROVE  /\ IInv' /\ Delivered(out, out')
           /\ rea'.last_received = (rea.last_received \/ last)
           /\ Split(KnownThen(Capacity, rea, out, first, len), out.pushed, out'.pushed,
                    Covered(rea'.intervals))
<1>. DEFINE a == InsertSubstring(rea, out, first, Run(first, len), last)
<1>1. rea' = a.rea /\ out' = a.out
  BY DEF Receive, Substring, Run
<1>2. Inserted(Capacity, Total, rea, out, first, len, last, a)
  <2>1. Capacity \in Nat /\ Capacity > 0 /\ Total \in Nat /\ first + len < Mod64
    BY ReassemblerAssumption, Mod64Assumption
  <2>. QED BY <2>1, InsertStep DEF IInv
<1>. HIDE DEF a
<1>3. /\ Reassembling(Capacity, Total, rea', out') /\ Delivered(out, out')
      /\ ClosesWhenDue(out, rea', out') \/ (out' = out /\ out.pushed < first)
      /\ rea'.last_received = (rea.last_received \/ last)
      /\ rea'.last_index = IF last THEN first + len ELSE rea.last_index
      /\ Split(KnownThen(Capacity, rea, out, first, len), out.pushed, out'.pushed,
               Covered(rea'.intervals))
  BY <1>1, <1>2 DEF Inserted
<1>4. /\ rea'.last_index \in {0, Total}
      /\ rea'.last_received => rea'.last_index = Total
  BY <1>3 DEF IInv
<1>5. out.pushed \in Nat /\ out.pushed <= out'.pushed /\ out'.pushed \in Nat
      /\ out'.pushed <= Total /\ Total \in Nat
  <2>1. out'.pushed <= Total
    BY <1>3 DEF Reassembling, Buffering
  <2>2. out'.pushed \in Nat
    BY <1>3, ReassemblerAssumption, ReassemblingNumbers
  <2>. QED BY <1>3, <2>1, <2>2, Numbers DEF Delivered
<1>6. ClosedWhenComplete'
  <2>1. CASE ClosesWhenDue(out, rea', out')
    <3>1. out'.closed <=> out.closed \/ (rea'.last_received /\ out'.pushed = rea'.last_index)
      BY <2>1 DEF ClosesWhenDue
    <3>2. out.closed <=> rea.last_received /\ out.pushed = Total
      BY DEF IInv, ClosedWhenComplete
    <3>3. rea.last_received => rea'.last_received
      BY <1>3
    <3>4. out.pushed = Total => out'.pushed = Total
      BY <1>5
    <3>5. out'.closed <=> rea'.last_received /\ out'.pushed = Total
      BY <1>4, <3>1, <3>2, <3>3, <3>4
    <3>. QED BY <3>5 DEF ClosedWhenComplete
  <2>2. CASE out' = out /\ out.pushed < first
    BY <1>5, <2>2 DEF IInv, ClosedWhenComplete
  <2>. QED BY <1>3, <2>1, <2>2
<1>. QED BY <1>3, <1>4, <1>6 DEF IInv

LEMMA KeepAliveStep ==
    ASSUME IInv, InsertKeepAlive
    PROVE  rea' = rea /\ out' = out
<1>1. /\ out.pushed \in Nat /\ out.pushed <= out.popped + Capacity /\ out.popped <= Total
      /\ out.popped \in Nat
      /\ FirstUnacceptable(out) = out.popped + Capacity
  BY Numbers
<1>2. Clamp(Mod64 - 1, out) < Mod64 - 1
  BY <1>1, ReassemblerAssumption, Mod64Assumption DEF Clamp, MinOf, MaxOf
<1>3. InsertSubstring(rea, out, Mod64 - 1, <<>>, FALSE) = [rea |-> rea, out |-> out]
  BY <1>2 DEF InsertSubstring, NoteLast
<1>. DEFINE a == InsertSubstring(rea, out, Mod64 - 1, <<>>, FALSE)
<1>4. a = [rea |-> rea, out |-> out]
  BY <1>3
<1>5. rea' = a.rea /\ out' = a.out
  BY DEF InsertKeepAlive, Receive
<1>. HIDE DEF a
<1>. QED BY <1>4, <1>5

LEMMA ReadStep ==
    ASSUME IInv, Read
    PROVE  /\ IInv' /\ rea' = rea /\ out'.pushed = out.pushed /\ out'.closed = out.closed
           /\ out'.popped \in out.popped .. out.pushed
<1>1. PICK len \in 1 .. Capacity : out' = ReaderPop(out, len)
  BY DEF Read
<1>2. len \in Nat
  BY ReassemblerAssumption
<1>3. SoundStream(out) /\ Reassembling(Capacity, Total, rea, out) /\ rea' = rea
  BY DEF IInv, Reassembling, Buffering, Read
<1>. DEFINE o == ReaderPop(out, len)
<1>4. /\ SoundStream(o) /\ o.capacity = out.capacity /\ o.pushed = out.pushed
      /\ o.closed = out.closed /\ o.popped = out.popped + MinOf(len, out.size)
  BY <1>2, <1>3, PopIsSound DEF StreamFields
<1>. HIDE DEF o
<1>5. MinOf(len, out.size) \in 0 .. out.size /\ out.size = out.pushed - out.popped
      /\ out.popped \in Nat /\ out.pushed \in Nat /\ out.size \in Nat
  BY <1>2, <1>3 DEF MinOf, SoundStream
<1>6. o.popped \in out.popped .. out.pushed
  BY <1>4, <1>5
<1>7. Reassembling(Capacity, Total, rea, o)
  <2>1. Capacity \in Nat /\ Capacity > 0 /\ Total \in Nat /\ Total <= Total
    BY ReassemblerAssumption
  <2>2. o.popped >= out.popped
    BY <1>5, <1>6
  <2>. DEFINE f == out.pushed + 1
  <2>3. Buffering(Capacity, Total, rea, out, f)
    BY <1>3 DEF Reassembling
  <2>4. f = o.pushed + 1
    BY <1>4
  <2>. HIDE DEF f
  <2>5. Buffering(Capacity, Total, rea, o, f)
    BY <1>4, <2>1, <2>2, <2>3, ReassemblingLater
  <2>. QED BY <2>4, <2>5 DEF Reassembling
<1>8. out' = o
  BY <1>1 DEF o
<1>. QED BY <1>3, <1>4, <1>6, <1>7, <1>8 DEF IInv, ClosedWhenComplete

LEMMA IInvInit == Init => IInv
<1>. SUFFICES ASSUME Init PROVE IInv
  OBVIOUS
<1>1. /\ SoundStream(out) /\ out.capacity = Capacity /\ out.pushed = 0 /\ out.closed = FALSE
  BY NewIsSound, ReassemblerAssumption DEF Init, NewByteStream
<1>2. /\ rea \in Reassemblers(Capacity, Total)
      /\ rea.intervals = {} /\ rea.last_received = FALSE /\ rea.last_index = 0
  BY DEF Init, NewReassembler, NewBuffer, Reassemblers
<1>3. Gapped({}) /\ Covered({}) = {}
  BY DEF Gapped, Covered
<1>. QED BY <1>1, <1>2, <1>3, ReassemblerAssumption
         DEF IInv, Reassembling, Buffering, ClosedWhenComplete

LEMMA IInvNext == IInv /\ [Next]_vars => IInv'
<1>. SUFFICES ASSUME IInv, [Next]_vars PROVE IInv'
  OBVIOUS
<1>1. CASE Insert
  <2>1. PICK first \in 0 .. Total : \E len \in 0 .. Total - first : \E last \in BOOLEAN :
              /\ last => first + len = Total
              /\ Receive(first, Substring(first, len), last)
    BY <1>1 DEF Insert
  <2>2. PICK len \in 0 .. Total - first, last \in BOOLEAN :
              /\ last => first + len = Total
              /\ Receive(first, Substring(first, len), last)
    BY <2>1
  <2>3. first \in Nat /\ len \in Nat /\ first + len <= Total
    BY ReassemblerAssumption
  <2>. QED BY <2>2, <2>3, ReceiveStep
<1>2. CASE InsertKeepAlive
  BY <1>2, KeepAliveStep DEF IInv, ClosedWhenComplete
<1>3. CASE Read
  BY <1>3, ReadStep
<1>4. CASE UNCHANGED vars
  BY <1>4 DEF vars, IInv, ClosedWhenComplete
<1>. QED BY <1>1, <1>2, <1>3, <1>4 DEF Next

-----------------------------------------------------------------------------
(* The theorems *)

LEMMA Invariance == Spec => []IInv
BY IInvInit, IInvNext, PTL DEF Spec

\* What a step of the reassembler is, in the terms
\* of StreamReassembly.
LEMMA ReceiveRefines ==
    ASSUME IInv, NEW first \in Nat, NEW len \in Nat, first + len <= Total,
           NEW last \in BOOLEAN, last => first + len = Total,
           Receive(first, Substring(first, len), last)
    PROVE  Reassembly!Receive(first, first + len, last)
<1>1. /\ IInv' /\ Delivered(out, out')
      /\ rea'.last_received = (rea.last_received \/ last)
      /\ Split(KnownThen(Capacity, rea, out, first, len), out.pushed, out'.pushed,
               Covered(rea'.intervals))
  BY ReceiveStep
<1>2. /\ out.pushed \in Nat /\ out'.pushed \in Nat /\ out'.pushed <= Total /\ Total \in Nat
      /\ out.pushed <= out'.pushed /\ out'.popped = out.popped
  <2>1. out'.pushed <= Total /\ Reassembling(Capacity, Total, rea', out')
    BY <1>1 DEF IInv, Reassembling, Buffering
  <2>2. out'.pushed \in Nat
    BY <2>1, ReassemblerAssumption, ReassemblingNumbers
  <2>. QED BY <1>1, <2>1, <2>2, Numbers DEF Split, Delivered
<1>. DEFINE known == KnownThen(Capacity, rea, out, first, len)
            gaps == {x \in out.pushed .. Total : x \notin known}
<1>3. known = Covered(rea.intervals)
                \cup (Reassembly!Window \cap (first .. first + len - 1))
  BY DEF KnownThen, Reassembly!Window
<1>4. /\ out.pushed .. out'.pushed - 1 \subseteq known /\ out'.pushed \notin known
      /\ Covered(rea'.intervals) = {x \in known : x >= out'.pushed}
  BY <1>1 DEF Split
<1>. HIDE DEF known
<1>5. out'.pushed = Reassembly!Min(gaps)
  <2>. DEFINE m == out'.pushed
  <2>1. gaps \in SUBSET Nat /\ m \in gaps /\ \A x \in gaps : m <= x
    BY <1>2, <1>4
  <2>. HIDE DEF gaps, m
  <2>2. Min(gaps) = m
    BY <2>1, MinIs
  <2>. QED BY <2>2 DEF Min, Reassembly!Min, m
<1>6. out'.closed = (rea'.last_received /\ out'.pushed = Total)
  <2>1. out'.closed \in BOOLEAN /\ rea'.last_received \in BOOLEAN
    BY <1>1 DEF IInv, Reassembling, Buffering, SoundStream, Reassemblers
  <2>. QED BY <1>1, <2>1 DEF IInv, ClosedWhenComplete
<1>. QED BY <1>1, <1>2, <1>3, <1>4, <1>5, <1>6 DEF Reassembly!Receive

LEMMA ReadRefines ==
    ASSUME IInv, Read
    PROVE  [Reassembly!Next]_Reassembly!vars
<1>1. /\ rea' = rea /\ out'.pushed = out.pushed /\ out'.closed = out.closed
      /\ out'.popped \in out.popped .. out.pushed
  BY ReadStep
<1>2. out.popped \in Nat /\ out.pushed \in Nat
  BY Numbers
<1>3. CASE out'.popped = out.popped
  BY <1>1, <1>3 DEF Reassembly!vars
<1>4. CASE out'.popped # out.popped
  <2>. DEFINE n == out'.popped - out.popped
  <2>1. n \in 1 .. out.pushed - out.popped /\ out'.popped = out.popped + n
    BY <1>1, <1>2, <1>4
  <2>. HIDE DEF n
  <2>2. Reassembly!Read(n)
    BY <1>1, <2>1 DEF Reassembly!Read
  <2>. QED BY <2>1, <2>2 DEF Reassembly!Next
<1>. QED BY <1>3, <1>4

\* Every variable keeps its type.
THEOREM ReassemblerTypeCorrect == Spec => []TypeOK
<1>1. IInv => TypeOK
  <2>. SUFFICES ASSUME IInv PROVE TypeOK
    OBVIOUS
  <2>1. Buffering(Capacity, Total, rea, out, out.pushed + 1)
    BY DEF IInv, Reassembling
  <2>2. rea.intervals \subseteq (0 .. Total) \X (0 .. Total)
    <3>. SUFFICES ASSUME NEW i \in rea.intervals PROVE i \in (0 .. Total) \X (0 .. Total)
      OBVIOUS
    <3>1. i \in Nat \X Nat /\ i[1] < i[2] /\ i[2] <= Total
      BY <2>1 DEF Buffering, Gapped
    <3>2. i[1] \in 0 .. Total /\ i[2] \in 0 .. Total /\ i = <<i[1], i[2]>>
      BY <3>1, ReassemblerAssumption
    <3>. QED BY <3>2
  <2>3. out.pushed \in 0 .. Total /\ out.popped \in Nat /\ out.closed \in BOOLEAN
        /\ out.capacity = Capacity
    BY <2>1, ReassemblerAssumption DEF Buffering, SoundStream
  <2>4. /\ rea.buf \in [0 .. Capacity - 1 -> {Blank} \cup 0 .. Total - 1]
        /\ rea.last_index \in {0, Total} /\ rea.last_received \in BOOLEAN
    BY <2>1 DEF IInv, Buffering, Reassemblers
  <2>. QED BY <2>2, <2>3, <2>4 DEF TypeOK
<1>. QED BY <1>1, Invariance, PTL

(***************************************************************************)
(* Intervals stay apart, beyond the next byte due and inside the window:   *)
(* the fact that makes one circular buffer of the capacity's size enough.  *)
(***************************************************************************)
THEOREM IntervalsStaySeparated == Spec => []Separated
<1>1. IInv => Separated
  <2>. SUFFICES ASSUME IInv PROVE Separated
    OBVIOUS
  <2>1. /\ Gapped(rea.intervals) /\ out.pushed \in Nat
        /\ \A i \in rea.intervals : out.pushed + 1 <= i[1] /\ i[2] <= out.popped + Capacity
    BY Numbers DEF IInv, Reassembling, Buffering
  <2>2. \A i \in rea.intervals : i[1] \in Nat /\ out.pushed < i[1]
    BY <2>1 DEF Gapped
  <2>. QED BY <2>1, <2>2 DEF Separated, Gapped
<1>. QED BY <1>1, Invariance, PTL

(***************************************************************************)
(* What an interval claims is in the buffer, whatever wrapped around its   *)
(* end or was blanked since it was stored.                                 *)
(***************************************************************************)
THEOREM BytesStayStored == Spec => []StoredBytes
<1>1. IInv => StoredBytes
  BY DEF IInv, Reassembling, Buffering, StoredBytes
<1>. QED BY <1>1, Invariance, PTL

(***************************************************************************)
(* The output is closed exactly when the whole stream has been written to  *)
(* it and its end is known.                                                *)
(***************************************************************************)
THEOREM ClosesWhenComplete == Spec => []ClosedWhenComplete
<1>1. IInv => ClosedWhenComplete
  BY DEF IInv
<1>. QED BY <1>1, Invariance, PTL

(***************************************************************************)
(* Every write to the output appends exactly the next bytes of the stream, *)
(* and none comes after the close.                                         *)
(***************************************************************************)
THEOREM WritesInOrder == Spec => PushesNextBytes
<1>1. IInv /\ [Next]_vars =>
        [out'.pushed # out.pushed =>
          /\ out'.q = Append(out.q, Substring(out.pushed, out'.pushed - out.pushed))
          /\ ~out.closed]_vars
  <2>. SUFFICES ASSUME IInv, Next, out'.pushed # out.pushed
                PROVE  /\ out'.q = Append(out.q, Substring(out.pushed, out'.pushed - out.pushed))
                       /\ ~out.closed
    OBVIOUS
  <2>1. CASE Insert
    <3>1. PICK first \in 0 .. Total : \E len \in 0 .. Total - first : \E last \in BOOLEAN :
              /\ last => first + len = Total
              /\ Receive(first, Substring(first, len), last)
      BY <2>1 DEF Insert
    <3>2. PICK len \in 0 .. Total - first, last \in BOOLEAN :
              /\ last => first + len = Total
              /\ Receive(first, Substring(first, len), last)
      BY <3>1
    <3>3. first \in Nat /\ len \in Nat /\ first + len <= Total
      BY ReassemblerAssumption
    <3>4. IInv' /\ Delivered(out, out')
      BY <3>2, <3>3, ReceiveStep
    <3>5. out'.pushed > out.pushed
          /\ out'.q = Append(out.q, Substring(out.pushed, out'.pushed - out.pushed))
      BY <3>4 DEF Delivered, Substring, Run
    <3>6. out.pushed \in Nat /\ out'.pushed \in Nat /\ Total \in Nat /\ out'.pushed <= Total
      BY <3>4, Numbers DEF IInv, Reassembling, Buffering, SoundStream
    <3>7. out.closed => out.pushed = Total
      BY DEF IInv, ClosedWhenComplete
    <3>8. ~out.closed
      BY <3>5, <3>6, <3>7
    <3>. QED BY <3>5, <3>8
  <2>2. CASE InsertKeepAlive
    BY <2>2, KeepAliveStep
  <2>3. CASE Read
    BY <2>3, ReadStep
  <2>. QED BY <2>1, <2>2, <2>3 DEF Next
<1>. QED BY <1>1, Invariance, PTL DEF PushesNextBytes, Spec

(***************************************************************************)
(* The interval set and the circular buffer implement reassembly: the      *)
(* stored bytes are those the intervals cover; no byte of the window is    *)
(* forgotten, none outside is kept, and the output is closed when the last *)
(* byte has been passed on.                                                *)
(***************************************************************************)
THEOREM RefinesReassembly == Spec => ImplementsReassembly
<1>1. Init => Reassembly!Init
  <2>1. Covered({}) = {}
    BY DEF Covered
  <2>. QED BY <2>1 DEF Init, Reassembly!Init, NewReassembler, NewByteStream
<1>2. IInv /\ [Next]_vars => [Reassembly!Next]_Reassembly!vars
  <2>. SUFFICES ASSUME IInv, [Next]_vars PROVE [Reassembly!Next]_Reassembly!vars
    OBVIOUS
  <2>1. CASE Insert
    <3>1. PICK first \in 0 .. Total : \E len \in 0 .. Total - first : \E last \in BOOLEAN :
              /\ last => first + len = Total
              /\ Receive(first, Substring(first, len), last)
      BY <2>1 DEF Insert
    <3>2. PICK len \in 0 .. Total - first, last \in BOOLEAN :
              /\ last => first + len = Total
              /\ Receive(first, Substring(first, len), last)
      BY <3>1
    <3>3. /\ first \in Nat /\ len \in Nat /\ first + len <= Total
          /\ first + len \in 0 .. Total /\ first <= first + len
      BY ReassemblerAssumption
    <3>4. Reassembly!Receive(first, first + len, last)
      BY <3>2, <3>3, ReceiveRefines
    <3>. DEFINE hi == first + len
    <3>5. hi \in 0 .. Total /\ first <= hi /\ (last => hi = Total)
          /\ Reassembly!Receive(first, hi, last)
      BY <3>2, <3>3, <3>4
    <3>. HIDE DEF hi
    <3>. QED BY <3>5 DEF Reassembly!Next
  <2>2. CASE InsertKeepAlive
    BY <2>2, KeepAliveStep DEF Reassembly!vars
  <2>3. CASE Read
    BY <2>3, ReadRefines
  <2>4. CASE UNCHANGED vars
    BY <2>4 DEF vars, Reassembly!vars
  <2>. QED BY <2>1, <2>2, <2>3, <2>4 DEF Next
<1>. QED BY <1>1, <1>2, Invariance, PTL DEF Spec, ImplementsReassembly, Reassembly!Spec
=============================================================================
