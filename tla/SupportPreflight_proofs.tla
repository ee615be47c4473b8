------------------------- MODULE SupportPreflight_proofs ------------------------
(***************************************************************************)
(* Proofs about the support preflight, for every network, selection,       *)
(* policy and bound.  Four inductive invariants on top of the first: the   *)
(* order in which the groups are visited; the budgets; what the summaries  *)
(* say although the recording of a group may be cut short; and what they   *)
(* say exactly as long as none was.                                        *)
(***************************************************************************)
EXTENDS SupportPreflight, InductionLemmas, SequenceTheorems

(* Sequences *)

\* The last n + 1 elements of a selection, and its tail.
LEMMA PrefixStep ==
  ASSUME NEW S, NEW s \in Seq(S), NEW n \in 0 .. Len(s) - 1
  PROVE  /\ SubSeq(s, 1, n) \in Seq(S) /\ Len(SubSeq(s, 1, n)) = n
         /\ Append(SubSeq(s, 1, n), s[n + 1]) = SubSeq(s, 1, n + 1)
         /\ SubSeq(s, n + 1, Len(s)) # <<>>
         /\ Head(SubSeq(s, n + 1, Len(s))) = s[n + 1]
         /\ Tail(SubSeq(s, n + 1, Len(s))) = SubSeq(s, n + 2, Len(s))
<1>1. Len(s) \in Nat /\ n \in Nat /\ n + 1 \in 1 .. Len(s) /\ Len(s) \in n + 1 .. Len(s)
  BY LenProperties
<1>2. \A i \in 1 .. Len(s) : s[i] \in S
  BY ElementOfSeq
<1>3. SubSeq(s, 1, n) \in Seq(S) /\ Len(SubSeq(s, 1, n)) = n
  BY <1>1, <1>2, SubSeqProperties
<1>4. SubSeq(s, 1, n + 1) = SubSeq(s, 1, n) \o <<s[n + 1]>>
  <2>1. 1 \in 1 .. Len(s) /\ n + 1 \in 1 .. Len(s) /\ (n + 1) - 1 = n
    BY <1>1
  <2> QED BY <2>1, SubSeqRecursiveSecond
<1>5. Append(SubSeq(s, 1, n), s[n + 1]) = SubSeq(s, 1, n) \o <<s[n + 1]>>
  BY <1>1, <1>2, <1>3, AppendIsConcat
<1>6. /\ Head(SubSeq(s, n + 1, Len(s))) = s[n + 1]
      /\ Tail(SubSeq(s, n + 1, Len(s))) = SubSeq(s, (n + 1) + 1, Len(s))
  BY <1>1, HeadTailOfSubSeq
<1>7. SubSeq(s, n + 1, Len(s)) # <<>>
  <2>1. \A i \in n + 1 .. Len(s) : s[i] \in S
    BY <1>1, <1>2
  <2>2. PICK back : back = SubSeq(s, n + 1, Len(s))
    OBVIOUS
  <2>3. Len(back) = IF n + 1 <= Len(s) THEN Len(s) - (n + 1) + 1 ELSE 0
    BY <1>1, <2>1, <2>2, SubSeqProperties
  <2>4. Len(back) # 0
    BY <1>1, <2>3
  <2>5. back # <<>>
    BY <2>4
  <2> QED BY <2>2, <2>5
<1>8. (n + 1) + 1 = n + 2
  BY <1>1
<1> QED BY <1>3, <1>4, <1>5, <1>6, <1>7, <1>8

\* What comes after the first n groups of a selection is none of them.
LEMMA SuffixDisjoint ==
  ASSUME NEW S, NEW s \in Seq(S), IsInjective(s), NEW n \in 0 .. Len(s), NEW k \in Nat, n <= k
  PROVE  /\ SubSeq(s, k + 1, Len(s)) \in Seq(S)
         /\ Range(SubSeq(s, k + 1, Len(s))) \cap Range(SubSeq(s, 1, n)) = {}
<1> DEFINE front == SubSeq(s, 1, n)
           back == SubSeq(s, k + 1, Len(s))
<1>1. Len(s) \in Nat /\ DOMAIN s = 1 .. Len(s) /\ \A i \in 1 .. Len(s) : s[i] \in S
  BY LenProperties, ElementOfSeq
<1>2. /\ front \in Seq(S) /\ Len(front) = n
      /\ \A i \in 1 .. n : front[i] = s[i]
  BY <1>1, SubSeqProperties
<1>3. /\ back \in Seq(S)
      /\ Len(back) = IF k + 1 <= Len(s) THEN Len(s) - k ELSE 0
      /\ \A i \in 1 .. Len(s) - (k + 1) + 1 : back[i] = s[k + 1 + i - 1]
  BY <1>1, SubSeqProperties
<1>4. DOMAIN front = 1 .. n /\ DOMAIN back = 1 .. Len(back)
  BY <1>2, <1>3, LenProperties
<1>5. \A j \in 1 .. Len(back) : k + j \in k + 1 .. Len(s) /\ back[j] = s[k + j]
  <2> HIDE DEF front, back
  <2> SUFFICES ASSUME NEW j \in 1 .. Len(back)
               PROVE  k + j \in k + 1 .. Len(s) /\ back[j] = s[k + j]
    OBVIOUS
  <2>1. k + 1 <= Len(s) /\ j \in 1 .. Len(s) - k
    <3>1. Len(back) = IF k + 1 <= Len(s) THEN Len(s) - k ELSE 0
      BY <1>3
    <3>2. Len(back) # 0
      OBVIOUS
    <3> QED BY <1>1, <3>1, <3>2
  <2>2. j \in 1 .. Len(s) - (k + 1) + 1 /\ k + 1 + j - 1 = k + j
    BY <1>1, <2>1
  <2> QED BY <1>1, <1>3, <2>1, <2>2
<1> HIDE DEF front, back
<1>6. ASSUME NEW i \in DOMAIN front, NEW j \in DOMAIN back, front[i] = back[j]
      PROVE  FALSE
  <2>1. i \in 1 .. n /\ j \in 1 .. Len(back) /\ k + j \in k + 1 .. Len(s)
    BY <1>4, <1>5
  <2>2. i \in 1 .. Len(s) /\ k + j \in 1 .. Len(s) /\ i # k + j
    BY <1>1, <2>1
  <2>3. s[i] = s[k + j]
    BY <1>2, <1>5, <1>6, <2>1
  <2> QED BY <1>1, <2>2, <2>3 DEF IsInjective
<1>7. Range(back) \cap Range(front) = {}
  BY <1>6 DEF Range
<1> QED BY <1>3, <1>7 DEF front, back

\* When the first n groups are completed, the loop visits the others in order.
LEMMA PendingIsTheRest ==
  ASSUME selected \in Seq(Groups), IsInjective(selected),
         NEW w, NEW n \in 0 .. Len(selected), w.completed = SubSeq(selected, 1, n)
  PROVE  PendingAfter(w) = SubSeq(selected, n + 1, Len(selected))
<1> DEFINE N == Len(selected)
           Body(h) == [i \in 0 .. N |->
                         IF i = 0 THEN <<>>
                         ELSE IF selected[i] \in Range(w.completed) THEN h[i - 1]
                         ELSE Append(h[i - 1], selected[i])]
           rest == [i \in 0 .. N |-> SubSeq(selected, n + 1, i)]
           among == CHOOSE h : h = Body(h)
<1>1. N \in Nat /\ DOMAIN selected = 1 .. N /\ \A i \in 1 .. N : selected[i] \in Groups
  BY LenProperties, ElementOfSeq
<1>2. \A i \in 1 .. N : selected[i] \in Range(w.completed) <=> i <= n
  <2>1. /\ SubSeq(selected, 1, n) \in Seq(Groups) /\ Len(SubSeq(selected, 1, n)) = n
        /\ \A i \in 1 .. n : SubSeq(selected, 1, n)[i] = selected[i]
    BY <1>1, SubSeqProperties
  <2>2. DOMAIN SubSeq(selected, 1, n) = 1 .. n
    BY <2>1, LenProperties
  <2>3. Range(w.completed) = {selected[i] : i \in 1 .. n}
    BY <2>1, <2>2 DEF Range
  <2> QED BY <1>1, <2>3 DEF IsInjective
<1>3. rest = Body(rest)
  <2>1. rest[0] = <<>>
    BY <1>1, SubSeqEmpty
  <2>2. ASSUME NEW i \in 1 .. N, i <= n PROVE rest[i] = rest[i - 1]
    <3>1. i \in Int /\ i - 1 \in Int /\ n + 1 \in Int /\ i < n + 1 /\ i - 1 < n + 1
      BY <1>1, <2>2
    <3>2. SubSeq(selected, n + 1, i) = <<>> /\ SubSeq(selected, n + 1, i - 1) = <<>>
      BY <3>1, SubSeqEmpty
    <3>3. i \in 0 .. N /\ i - 1 \in 0 .. N
      BY <1>1
    <3> QED BY <3>2, <3>3
  <2>3. ASSUME NEW i \in 1 .. N, n < i PROVE rest[i] = Append(rest[i - 1], selected[i])
    <3>1. n + 1 \in 1 .. N /\ i \in n + 1 .. N
      BY <1>1, <2>3
    <3>2. SubSeq(selected, n + 1, i) = SubSeq(selected, n + 1, i - 1) \o <<selected[i]>>
      BY <3>1, SubSeqRecursiveSecond
    <3>3. SubSeq(selected, n + 1, i - 1) \in Seq(Groups)
      <4>1. \A j \in n + 1 .. i - 1 : selected[j] \in Groups
        BY <1>1, <3>1
      <4> QED BY <1>1, <3>1, <4>1, SubSeqProperties
    <3>4. i \in 0 .. N /\ i - 1 \in 0 .. N /\ selected[i] \in Groups
      BY <1>1
    <3>5. Append(SubSeq(selected, n + 1, i - 1), selected[i])
            = SubSeq(selected, n + 1, i - 1) \o <<selected[i]>>
      BY <3>3, <3>4, AppendIsConcat
    <3> QED BY <3>2, <3>4, <3>5
  <2>4. \A i \in 0 .. N : rest[i] = Body(rest)[i]
    <3> SUFFICES ASSUME NEW i \in 0 .. N PROVE rest[i] = Body(rest)[i]
      OBVIOUS
    <3> HIDE DEF rest
    <3>1. CASE i = 0
      BY <2>1, <3>1
    <3>2. CASE i # 0
      <4>1. i \in 1 .. N /\ (i <= n \/ n < i) /\ (i <= n => ~ n < i)
        BY <1>1, <3>2
      <4>2. Body(rest)[i] = IF i <= n THEN rest[i - 1] ELSE Append(rest[i - 1], selected[i])
        BY <1>2, <3>2, <4>1
      <4> HIDE DEF Body
      <4> QED BY <2>2, <2>3, <4>1, <4>2
    <3> QED BY <3>1, <3>2
  <2>5. rest = [i \in 0 .. N |-> rest[i]] /\ Body(rest) = [i \in 0 .. N |-> Body(rest)[i]]
    OBVIOUS
  <2> HIDE DEF Body, rest
  <2> QED BY <2>4, <2>5
<1>4. among = Body(among)
  <2> HIDE DEF Body, rest
  <2> QED BY <1>3
<1>5. \A i \in 0 .. N : among[i] = rest[i]
  <2> DEFINE Same == {i \in 0 .. N : among[i] = rest[i]}
  <2> HIDE DEF among, rest
  <2>1. 0 \in Same
    BY <1>1, <1>3, <1>4
  <2>2. ASSUME NEW i \in 1 .. N, i - 1 \in Same PROVE i \in Same
    <3>1. i \in 0 .. N /\ i # 0
      BY <1>1
    <3>2. Body(among)[i] = Body(rest)[i]
      BY <2>2, <3>1
    <3> HIDE DEF Body
    <3> QED BY <3>1, <3>2, <1>3, <1>4
  <2> HIDE DEF Same
  <2>3. 0 .. N \subseteq Same
    BY <1>1, <2>1, <2>2, IntervalInduction
  <2> QED BY <2>3 DEF Same
<1>6. PendingAfter(w) = among[N]
  BY DEF PendingAfter
<1>7. N \in 0 .. N /\ rest[N] = SubSeq(selected, n + 1, Len(selected))
  BY <1>1
<1> HIDE DEF among, rest
<1> QED BY <1>5, <1>6, <1>7
--------------------------------------------------------------------------------
(* The inductive invariants *)

Chosen == Len(selected)
Done == Len(work.completed)
First(n) == SubSeq(selected, 1, n)
After(n) == SubSeq(selected, n + 1, Chosen)

\* Points of the process inside the loop body, before the group is completed.
InGroup == {"group", "chunk", "blocks", "destination", "completed"}

\* The groups are visited in order, on from those completed: in memory, and in
\* a checkpoint, which a resumed run never falls behind.
Visited ==
  /\ Done <= Chosen /\ work.completed = First(Done)
  /\ pc \in {"loop", "retained", "periodic"} => pending = After(Done)
  /\ pc \in InGroup => Done < Chosen /\ current = selected[Done + 1] /\ pending = After(Done + 1)
  /\ pc = "finally" => pending \in {After(Done), After(Done + 1)}

OnDisk ==
  checkpoint # None =>
    /\ Len(checkpoint.work.completed) <= Chosen
    /\ checkpoint.work.completed = First(Len(checkpoint.work.completed))
    /\ pc # "down" /\ resumed => Len(checkpoint.work.completed) <= Done

Reported ==
  /\ pc \notin {"down", "finally"} => status = "completed"
  /\ pc = "finally" /\ status = "completed" => Done = Chosen
  /\ pc # "down" => outcome = None

OrderInv == TypeOK /\ Visited /\ OnDisk /\ Reported

\* Summaries are marked under a policy.
Marked(summaries, p) ==
  \A i \in DOMAIN summaries :
    BlockSize[summaries[i].block] > p.size => summaries[i].exceeds

\* What the summaries of the current group may add at each point of recording it.
Overshoot ==
  /\ pc \in {"loop", "group", "chunk", "periodic"} => Retained(work) <= policy.retained
  /\ pc = "blocks" =>
       Retained(work) + Len(queue) <= policy.retained + Len(GroupBlocks[current])
  /\ pc = "destination" => Retained(work) <= policy.retained + Len(GroupBlocks[current])
  /\ pc \in {"completed", "retained"} =>
       /\ current # None
       /\ Retained(work) <= policy.retained + 1 + Len(GroupBlocks[current])

BudgetInv ==
  /\ pc # "down" => Marked(work.blocks, policy)
  /\ pc = "blocks" => Marked(queue, policy)
  /\ checkpoint # None => Marked(checkpoint.work.blocks, checkpoint.policy)
  /\ Overshoot /\ RetainedOvershootBounded
  /\ PartialResultOnDisk

\* What block summaries are about.
Named == [group : Groups, block : AllBlocks]

\* A list ends with another.
Ends(list, last) ==
  /\ Len(last) <= Len(list)
  /\ \A k \in 1 .. Len(last) : list[Len(list) - Len(last) + k] = last[k]

\* The completed groups have their summaries, whatever was cut before.
Gathered(w, n) == Covers(w.destination, DestinationOf, n) /\ Covers(Names(w.blocks), BlocksOf, n)

\* While a group is recorded, the lists end with what is recorded of it.
BeingRecorded ==
  /\ pc \in {"chunk", "blocks"} => mode # "structural"
  /\ pc \in {"blocks", "destination"} => chunk = ChunksOf(current)
  /\ pc = "blocks" =>
       /\ Ends(Names(work.blocks) \o Names(queue), BlocksOf[current])
       /\ \A i \in 1 .. Len(queue) : NameOf(queue[i]) \in Range(BlocksOf[current])
  /\ pc \in {"destination", "completed"} => Ends(Names(work.blocks), BlocksOf[current])
  /\ pc = "completed" => Ends(work.destination, DestinationOf[current])

\* Destinations appended for a group that is not yet completed.
Ahead == IF pc = "completed" THEN 1 ELSE 0

MemoryCovers ==
  pc # "down" => Gathered(work, Done) /\ Len(work.destination) <= Done + cuts + Ahead

CheckpointCovers ==
  checkpoint # None =>
    /\ Gathered(checkpoint.work, Len(checkpoint.work.completed))
    /\ Len(checkpoint.work.destination) <= Len(checkpoint.work.completed) + cuts

OutcomeCovers ==
  outcome # None /\ outcome.status = "completed" =>
    /\ outcome.work.completed = First(Chosen)
    /\ Gathered(outcome.work, Chosen)
    /\ Len(outcome.work.destination) <= Chosen + cuts

\* What memory and disk hold of the completed groups at every point.
CoverInv == cuts \in Nat /\ BeingRecorded /\ MemoryCovers /\ CheckpointCovers /\ OutcomeCovers

Covered(w, n) ==
  w.destination = [i \in 1 .. n |-> [group |-> selected[i], chunks |-> ChunksOf(selected[i])]]

\* As long as no recording was cut: between groups the work is that of an
\* uninterrupted run; inside the recording of one group it lacks what is still
\* to be appended.
ExactInv ==
  /\ pc \notin Recording \cup {"down"} => Uninterrupted(work, Done)
  /\ pc \in {"blocks", "destination"} => Covered(work, Done)
  /\ pc = "blocks" => Names(work.blocks) \o Names(queue) = BlocksUpTo[Done + 1]
  /\ pc \in {"destination", "completed"} => Names(work.blocks) = BlocksUpTo[Done + 1]
  /\ pc = "completed" => Covered(work, Done + 1)
  /\ checkpoint # None =>
       Uninterrupted(checkpoint.work, Len(checkpoint.work.completed))
  /\ InterruptResumeExact
--------------------------------------------------------------------------------
(* The order of the groups *)

LEMMA Selected ==
  ASSUME OrderInv
  PROVE  /\ selected \in Seq(Groups) /\ IsInjective(selected)
         /\ Chosen \in Nat /\ Done \in 0 .. Chosen
         /\ \A i \in 1 .. Chosen : selected[i] \in Groups
<1>1. selected \in Seq(Groups) /\ IsInjective(selected)
  BY PreflightAssumption DEF OrderInv, TypeOK
<1>2. Done \in Nat
  BY LenProperties DEF OrderInv, TypeOK, Work, Done
<1> QED BY <1>1, <1>2, LenProperties, ElementOfSeq DEF OrderInv, Visited, Chosen

LEMMA NoWorkIsWork == NoWork \in Work /\ Retained(NoWork) = 0
BY EmptySeq DEF NoWork, Work, Retained

\* The summaries of a group: as many as it has blocks, each of its own.
LEMMA QueueOfGroup ==
  ASSUME NEW g \in Groups, policy \in Policies,
         NEW q, q = [i \in DOMAIN GroupBlocks[g] |-> Summary(g, GroupBlocks[g][i])]
  PROVE  /\ q \in Seq(Summaries) /\ Len(q) = Len(GroupBlocks[g])
         /\ Len(GroupBlocks[g]) \in Nat /\ DOMAIN GroupBlocks[g] = 1 .. Len(GroupBlocks[g])
         /\ \A i \in 1 .. Len(GroupBlocks[g]) : GroupBlocks[g][i] \in AllBlocks
<1>1. /\ GroupBlocks[g] \in Seq(AllBlocks) /\ Len(GroupBlocks[g]) \in Nat
      /\ DOMAIN GroupBlocks[g] = 1 .. Len(GroupBlocks[g])
      /\ \A i \in 1 .. Len(GroupBlocks[g]) : GroupBlocks[g][i] \in AllBlocks
  <2>1. GroupBlocks[g] \in Seq(AllBlocks)
    BY PreflightAssumption
  <2> QED BY <2>1, LenProperties, ElementOfSeq
<1>2. \A i \in 1 .. Len(GroupBlocks[g]) : Summary(g, GroupBlocks[g][i]) \in Summaries
  BY <1>1, PreflightAssumption DEF Summary, Summaries
<1> QED BY <1>1, <1>2

LEMMA OrderInitHolds == Init => OrderInv
<1> SUFFICES ASSUME Init PROVE OrderInv
  OBVIOUS
<1>1. selected \in Seq(Groups) /\ Len(<<>>) = 0 /\ <<>> \in Seq(Groups) /\ <<>> \in Seq(Summaries)
  BY PreflightAssumption, EmptySeq DEF Init
<1>2. Chosen \in Nat
  BY <1>1, LenProperties DEF Chosen
<1>3. work.completed = <<>> /\ SubSeq(selected, 1, 0) = <<>> /\ Range(<<>>) = {}
  BY SubSeqEmpty DEF Init, NoWork, Range
<1>4. TypeOK
  BY <1>1, <1>3, NoWorkIsWork DEF Init, TypeOK, Statuses
<1>5. Visited
  BY <1>1, <1>2, <1>3 DEF Init, Visited, Done, First, InGroup
<1> QED BY <1>4, <1>5 DEF Init, OrderInv, OnDisk, Reported

LEMMA InvokeKeepsOrder == OrderInv /\ Invoke => OrderInv'
<1> SUFFICES ASSUME OrderInv, Invoke PROVE OrderInv'
  OBVIOUS
<1> USE DEF OrderInv
<1>1. /\ selected \in Seq(Groups) /\ IsInjective(selected) /\ Chosen \in Nat
      /\ Len(<<>>) = 0 /\ <<>> \in Seq(Groups) /\ <<>> \in Seq(Summaries)
  BY Selected, EmptySeq
<1>2. ASSUME NEW w \in Work, Len(w.completed) <= Chosen, w.completed = First(Len(w.completed)),
             Begin(w), policy' \in Policies, resumed' \in BOOLEAN,
             resumed' /\ checkpoint # None => w = checkpoint.work
      PROVE  OrderInv'
  <2>1. Len(w.completed) \in 0 .. Chosen
    BY <1>1, <1>2, LenProperties DEF Work
  <2>2. pending' = After(Len(w.completed))
    BY <1>1, <1>2, <2>1, PendingIsTheRest DEF Begin, After, First, Chosen
  <2>3. selected' = selected /\ work' = w /\ pc' = "loop"
    BY <1>2 DEF Begin
  <2>4. Visited'
    BY <1>2, <2>1, <2>2, <2>3 DEF Visited, Done, First, After, Chosen, InGroup
  <2>5. (Range(pending) \cap Range(work.completed) = {})'
    <3>1. Range(After(Len(w.completed))) \cap Range(First(Len(w.completed))) = {}
      BY <1>1, <2>1, SuffixDisjoint DEF After, First, Chosen
    <3> QED BY <1>2, <2>2, <2>3, <3>1
  <2>6. pending' \in Seq(Groups)
    BY <1>1, <2>1, <2>2, SuffixDisjoint DEF After, Chosen
  <2>7. TypeOK'
    BY <1>1, <1>2, <2>5, <2>6, PreflightAssumption DEF TypeOK, Begin, Statuses
  <2>8. OnDisk' /\ Reported'
    BY <1>2, <2>1, <2>3 DEF OnDisk, Reported, Begin, Done, Chosen, First
  <2> QED BY <2>4, <2>7, <2>8
<1>3. CASE StartFresh
  <2>1. Len(NoWork.completed) = 0 /\ NoWork.completed = First(0)
    BY <1>1, SubSeqEmpty DEF NoWork, First
  <2>2. Begin(NoWork) /\ policy' \in Policies /\ resumed' = FALSE
    BY <1>3 DEF StartFresh
  <2>3. Len(NoWork.completed) <= Chosen /\ NoWork.completed = First(Len(NoWork.completed))
    BY <1>1, <2>1
  <2>4. resumed' \in BOOLEAN /\ ~ resumed'
    BY <2>2
  <2> QED BY <1>2, <2>2, <2>3, <2>4, NoWorkIsWork
<1>4. CASE Resume
  <2>1. checkpoint # None /\ checkpoint.work \in Work
    BY <1>4 DEF Resume, TypeOK, Results
  <2> QED BY <1>2, <1>4, <2>1 DEF Resume, OnDisk
<1>5. CASE RefuseResume
  BY <1>5 DEF RefuseResume, TypeOK, Visited, OnDisk, Reported, Done, First, After, Chosen, InGroup
<1> QED BY <1>3, <1>4, <1>5 DEF Invoke

\* The loop is left, for a reason that is not completion.
LEMMA LeaveKeepsOrder ==
  ASSUME OrderInv, pc \notin {"down", "finally"}, pc' = "finally", status' \in Statuses \ {"completed"},
         UNCHANGED <<mode, selected, policy, resumed, work, pending, current, chunk, queue,
                     checkpoint, outcome>>
  PROVE  OrderInv'
<1> USE DEF OrderInv
<1>1. TypeOK'
  BY DEF TypeOK
<1>2. Visited'
  BY DEF TypeOK, Visited, Done, First, After, Chosen, InGroup
<1> QED BY <1>1, <1>2 DEF OnDisk, Reported, Done, First, Chosen

LEMMA GroupKeepsOrder == OrderInv /\ Group => OrderInv'
<1> SUFFICES ASSUME OrderInv, Group PROVE OrderInv'
  OBVIOUS
<1> USE DEF OrderInv
<1>1. /\ selected \in Seq(Groups) /\ IsInjective(selected) /\ Chosen \in Nat /\ Done \in 0 .. Chosen
      /\ \A i \in 1 .. Chosen : selected[i] \in Groups
  BY Selected
<1>2. CASE NextGroup
  <2>1. pending = After(Done) /\ pc = "loop" /\ pending # <<>>
    BY <1>2 DEF NextGroup, Visited
  <2>2. Done \in 0 .. Len(selected) - 1
    <3>1. Done = Chosen => After(Done) = <<>>
      BY <1>1, SubSeqEmpty DEF After
    <3> QED BY <1>1, <2>1, <3>1 DEF Chosen
  <2>3. /\ current' = selected[Done + 1] /\ Done + 1 \in 1 .. Chosen
        /\ pending' = SubSeq(selected, Done + 2, Len(selected))
    BY <1>1, <1>2, <2>1, <2>2, PrefixStep DEF NextGroup, After, Chosen
  <2>4. UNCHANGED <<selected, work, status, checkpoint, outcome, resumed>> /\ pc' = "group"
    BY <1>2 DEF NextGroup
  <2>5. pending' = After(Done + 1)
    <3>1. (Done + 1) + 1 = Done + 2
      BY <1>1
    <3> QED BY <2>3, <3>1 DEF After, Chosen
  <2>6. Visited'
    BY <1>1, <2>2, <2>3, <2>4, <2>5 DEF Visited, Done, First, After, Chosen, InGroup
  <2>7. pending' \in Seq(Groups) /\ Range(pending') \cap Range(work'.completed) = {}
    <3>1. Done + 1 \in Nat /\ Done <= Done + 1
      BY <1>1
    <3> QED BY <1>1, <2>4, <2>5, <3>1, SuffixDisjoint DEF Visited, After, First, Chosen
  <2>8. TypeOK'
    BY <1>1, <1>2, <2>3, <2>7 DEF TypeOK, NextGroup
  <2> QED BY <2>1, <2>4, <2>6, <2>8 DEF OnDisk, Reported, Done, Chosen, First
<1>3. CASE LoopDone
  <2>1. Done = Chosen
    <3>1. pending = After(Done) /\ pending = <<>>
      BY <1>3 DEF LoopDone, Visited
    <3>2. Done < Chosen => After(Done) # <<>>
      BY <1>1, PrefixStep DEF After, Chosen
    <3> QED BY <1>1, <3>1, <3>2
  <2> QED BY <1>1, <1>3, <2>1
      DEF LoopDone, TypeOK, Visited, OnDisk, Reported, Done, First, After, Chosen, InGroup, counters
<1>4. CASE StopBeforeGroup
  BY <1>4, LeaveKeepsOrder DEF StopBeforeGroup, Break, Statuses
<1>5. CASE Enter
  BY <1>5, EmptySeq DEF Enter, TypeOK, Visited, OnDisk, Reported, Done, First, After, Chosen, InGroup
<1>6. CASE ExamineChunk
  <2>1. TypeOK'
    BY <1>6 DEF ExamineChunk, TypeOK
  <2> QED BY <1>6, <2>1 DEF ExamineChunk, Visited, OnDisk, Reported, Done, First, After, Chosen, InGroup
<1>7. CASE StopInsideChunk
  BY <1>7, LeaveKeepsOrder DEF StopInsideChunk, Break, Statuses
<1>8. CASE ChunksDone
  <2>1. current \in Groups /\ policy \in Policies
    BY <1>1, <1>8 DEF ChunksDone, Visited, InGroup, TypeOK
  <2>2. queue' \in Seq(Summaries)
    BY <1>8, <2>1, QueueOfGroup DEF ChunksDone
  <2> QED BY <1>8, <2>2
      DEF ChunksDone, TypeOK, Visited, OnDisk, Reported, Done, First, After, Chosen, InGroup
<1> QED BY <1>2, <1>3, <1>4, <1>5, <1>6, <1>7, <1>8 DEF Group

LEMMA ResultIsTyped ==
  ASSUME OrderInv, pc # "down"
  PROVE  Result \in Results /\ Result # None /\ Result.work = work /\ Result.policy = policy
         /\ Result.status = status
<1>1. policy \in Policies /\ status \in Statuses /\ work \in Work
  BY DEF OrderInv, TypeOK
<1> QED BY <1>1, PreflightAssumption DEF Result, Results

\* The result is written to the checkpoint file, or not.
LEMMA WriteKeepsOnDisk ==
  ASSUME OrderInv, pc # "down", checkpoint' \in {Result, checkpoint}, UNCHANGED <<selected, work>>,
         pc' = "down" \/ resumed' = resumed
  PROVE  OnDisk' /\ checkpoint' \in Results \cup {None}
<1>1. CASE checkpoint' = Result
  <2>1. checkpoint'.work = work /\ checkpoint' \in Results
    BY <1>1, ResultIsTyped
  <2>2. Done <= Chosen /\ work.completed = First(Done) /\ Done \in Nat
    BY Selected DEF OrderInv, Visited
  <2> QED BY <2>1, <2>2 DEF OnDisk, Done, First, Chosen
<1>2. CASE checkpoint' = checkpoint
  BY <1>2 DEF OrderInv, TypeOK, OnDisk, Done, First, Chosen
<1> QED BY <1>1, <1>2

LEMMA RecordKeepsOrder == OrderInv /\ Record => OrderInv'
<1> SUFFICES ASSUME OrderInv, Record PROVE OrderInv'
  OBVIOUS
<1> USE DEF OrderInv
<1>1. /\ selected \in Seq(Groups) /\ IsInjective(selected) /\ Chosen \in Nat /\ Done \in 0 .. Chosen
      /\ \A i \in 1 .. Chosen : selected[i] \in Groups
      /\ work \in Work /\ pending \in Seq(Groups)
  BY Selected DEF TypeOK
<1>2. CASE AppendBlock
  <2>1. Head(queue) \in Summaries /\ Tail(queue) \in Seq(Summaries)
    BY <1>2, HeadTailProperties DEF AppendBlock, TypeOK
  <2>2. Append(work.blocks, Head(queue)) \in Seq(Summaries)
    BY <1>1, <2>1, AppendProperties DEF Work
  <2>3. work' \in Work /\ work'.completed = work.completed
    BY <1>1, <1>2, <2>2 DEF AppendBlock, Work
  <2>4. TypeOK'
    BY <1>2, <2>1, <2>3 DEF AppendBlock, TypeOK
  <2> QED BY <1>2, <2>3, <2>4
      DEF AppendBlock, Visited, OnDisk, Reported, Done, First, After, Chosen, InGroup
<1>3. CASE BlocksDone
  <2>1. TypeOK'
    BY <1>3 DEF BlocksDone, TypeOK
  <2> QED BY <1>3, <2>1
      DEF BlocksDone, Visited, OnDisk, Reported, Done, First, After, Chosen, InGroup
<1>4. CASE AppendDestination
  <2>1. [group |-> current, chunks |-> chunk] \in Destinations
    BY <1>1, <1>4 DEF AppendDestination, Destinations, TypeOK, Visited, InGroup
  <2>2. Append(work.destination, [group |-> current, chunks |-> chunk]) \in Seq(Destinations)
    BY <1>1, <2>1, AppendProperties DEF Work
  <2>3. work' \in Work /\ work'.completed = work.completed
    BY <1>1, <1>4, <2>2 DEF AppendDestination, Work
  <2>4. TypeOK'
    BY <1>4, <2>3 DEF AppendDestination, TypeOK
  <2> QED BY <1>4, <2>3, <2>4
      DEF AppendDestination, Visited, OnDisk, Reported, Done, First, After, Chosen, InGroup
<1>5. CASE AppendCompleted
  <2>1. /\ Done < Chosen /\ current = selected[Done + 1] /\ pending = After(Done + 1)
        /\ work.completed = First(Done)
    BY <1>5 DEF AppendCompleted, Visited, InGroup
  <2>2. work'.completed = First(Done + 1)
    <3>1. work'.completed = Append(First(Done), selected[Done + 1])
      BY <1>1, <1>5, <2>1 DEF AppendCompleted, Work
    <3> QED BY <1>1, <2>1, <3>1, PrefixStep DEF First, Chosen
  <2>3. work'.completed \in Seq(Groups) /\ Len(work'.completed) = Done + 1
    <3>1. \A i \in 1 .. Done + 1 : selected[i] \in Groups
      BY <1>1, <2>1
    <3> QED BY <1>1, <2>2, <3>1, SubSeqProperties DEF First
  <2>4. work' \in Work
    BY <1>1, <1>5, <2>3 DEF AppendCompleted, Work
  <2>5. selected' = selected /\ pending' = pending /\ pc' = "retained"
    BY <1>5 DEF AppendCompleted
  <2>6. Visited'
    <3>1. Done' = Done + 1 /\ Chosen' = Chosen
      BY <2>3, <2>5 DEF Done, Chosen
    <3>2. /\ work'.completed = SubSeq(selected', 1, Done')
          /\ pending' = SubSeq(selected', Done' + 1, Chosen')
      BY <2>1, <2>2, <2>5, <3>1 DEF First, After
    <3> QED BY <1>1, <2>1, <2>5, <3>1, <3>2 DEF Visited, InGroup, First, After
  <2>7. Range(pending') \cap Range(work'.completed) = {}
    <3>1. Done + 1 \in 0 .. Len(selected) /\ Done + 1 \in Nat /\ Done + 1 <= Done + 1
      BY <1>1, <2>1 DEF Chosen
    <3>2. Range(After(Done + 1)) \cap Range(First(Done + 1)) = {}
      BY <1>1, <3>1, SuffixDisjoint DEF After, First, Chosen
    <3> QED BY <2>1, <2>2, <2>5, <3>2
  <2>8. TypeOK'
    BY <1>5, <2>4, <2>7 DEF AppendCompleted, TypeOK
  <2>9. OnDisk' /\ Reported'
    BY <1>1, <1>5, <2>3 DEF AppendCompleted, OnDisk, Reported, Done, First, Chosen
  <2> QED BY <2>6, <2>8, <2>9
<1>6. CASE StopRetained
  BY <1>6, LeaveKeepsOrder DEF StopRetained, Break, Statuses
<1>7. CASE WithinRetained \/ SkipPersist
  <2>1. TypeOK'
    BY <1>7 DEF WithinRetained, SkipPersist, TypeOK
  <2>2. /\ UNCHANGED <<selected, work, pending, checkpoint, status, outcome, resumed>>
        /\ pc \in {"retained", "periodic"} /\ pc' \in {"periodic", "loop"}
    BY <1>7 DEF WithinRetained, SkipPersist
  <2>3. Visited'
    BY <2>2 DEF Visited, Done, First, After, Chosen, InGroup
  <2> QED BY <2>1, <2>2, <2>3 DEF OnDisk, Reported, Done, First, Chosen
<1>8. CASE PeriodicPersist
  <2>1. OnDisk' /\ checkpoint' \in Results \cup {None}
    BY <1>8, WriteKeepsOnDisk DEF PeriodicPersist
  <2>2. TypeOK'
    BY <1>8, <2>1 DEF PeriodicPersist, TypeOK
  <2> QED BY <1>8, <2>1, <2>2
      DEF PeriodicPersist, Visited, Reported, Done, First, After, Chosen, InGroup
<1>9. CASE Return
  <2>1. OnDisk' /\ checkpoint' \in Results \cup {None}
    BY <1>9, WriteKeepsOnDisk DEF Return
  <2>2. outcome' \in Results
    BY <1>9, ResultIsTyped DEF Return
  <2>3. TypeOK'
    BY <1>9, <2>1, <2>2 DEF Return, TypeOK
  <2> QED BY <1>9, <2>1, <2>3
      DEF Return, Visited, Reported, Done, First, After, Chosen, InGroup
<1> QED BY <1>2, <1>3, <1>4, <1>5, <1>6, <1>7, <1>8, <1>9 DEF Record

LEMMA EnvironmentKeepsOrder ==
  OrderInv /\ (Interrupt \/ NumericalFailure \/ OtherFailure \/ Crash) => OrderInv'
<1> SUFFICES ASSUME OrderInv, Interrupt \/ NumericalFailure \/ OtherFailure \/ Crash
             PROVE  OrderInv'
  OBVIOUS
<1> USE DEF OrderInv
<1>1. CASE Interrupt
  <2>1. pc # "down" /\ pc' = "finally" /\ status' = "interrupted_partial"
    BY <1>1 DEF Interrupt
  <2>2. TypeOK'
    BY <1>1, <2>1 DEF Interrupt, TypeOK, Statuses
  <2>3. Visited'
    BY <1>1, <2>1 DEF Interrupt, TypeOK, Visited, Done, First, After, Chosen, InGroup
  <2> QED BY <1>1, <2>1, <2>2, <2>3 DEF Interrupt, OnDisk, Reported, Done, First, Chosen
<1>2. CASE NumericalFailure
  BY <1>2, LeaveKeepsOrder DEF NumericalFailure, Statuses
<1>3. CASE OtherFailure
  <2>1. OnDisk' /\ checkpoint' \in Results \cup {None}
    BY <1>3, WriteKeepsOnDisk DEF OtherFailure
  <2>2. TypeOK'
    BY <1>3, <2>1 DEF OtherFailure, TypeOK
  <2> QED BY <1>3, <2>1, <2>2
      DEF OtherFailure, Visited, Reported, Done, First, After, Chosen, InGroup
<1>4. CASE Crash
  <2>1. TypeOK'
    BY <1>4 DEF Crash, TypeOK
  <2> QED BY <1>4, <2>1
      DEF Crash, Visited, OnDisk, Reported, Done, First, After, Chosen, InGroup
<1> QED BY <1>1, <1>2, <1>3, <1>4

\* OrderInv is inductive.
LEMMA OrderInvHolds == Spec => []OrderInv
<1>1. OrderInv /\ [Next]_vars => OrderInv'
  <2>1. OrderInv /\ UNCHANGED vars => OrderInv'
    <3> SUFFICES ASSUME OrderInv, UNCHANGED vars PROVE OrderInv'
      OBVIOUS
    <3>1. UNCHANGED <<mode, selected, pc, policy, resumed, work, pending, current, chunk,
                      queue, status, checkpoint, outcome>>
      BY DEF vars, memory
    <3>2. TypeOK'
      BY <3>1 DEF OrderInv, TypeOK
    <3>3. Visited'
      BY <3>1 DEF OrderInv, Visited, Done, First, After, Chosen, InGroup
    <3> QED BY <3>1, <3>2, <3>3 DEF OrderInv, OnDisk, Reported, Done, First, Chosen
  <2> QED BY <2>1, InvokeKeepsOrder, GroupKeepsOrder, RecordKeepsOrder, EnvironmentKeepsOrder
      DEF Next, Process
<1> QED BY <1>1, OrderInitHolds, PTL DEF Spec

\* Memory, checkpoint and result have their types in every run, and the list of
\* pending groups never holds one already recorded.
THEOREM PreflightTypeCorrect == Spec => []TypeOK
<1>1. OrderInv => TypeOK
  BY DEF OrderInv
<1> QED BY <1>1, OrderInvHolds, PTL

\* Every write of the checkpoint file writes the result of the moment.
LEMMA CheckpointWrites ==
  ASSUME Next
  PROVE  \/ checkpoint' = checkpoint
         \/ checkpoint' = Result /\ pc # "down" /\ UNCHANGED <<selected, resumed, work, policy, status>>
<1>1. CASE Invoke
  BY <1>1 DEF Invoke, StartFresh, Resume, RefuseResume, Begin
<1>2. CASE Group
  BY <1>2 DEF Group, NextGroup, LoopDone, StopBeforeGroup, Enter, ExamineChunk, StopInsideChunk,
    ChunksDone, Break
<1>3. CASE Record
  BY <1>3 DEF Record, AppendBlock, BlocksDone, AppendDestination, AppendCompleted, StopRetained,
    WithinRetained, PeriodicPersist, SkipPersist, Return, Break
<1>4. CASE Interrupt \/ NumericalFailure \/ OtherFailure \/ Crash
  BY <1>4 DEF Interrupt, NumericalFailure, OtherFailure, Crash
<1> QED BY <1>1, <1>2, <1>3, <1>4 DEF Next, Process

LEMMA PrefixOfPrefix ==
  ASSUME NEW S, NEW s \in Seq(S), NEW n \in 0 .. Len(s), NEW k \in 0 .. n
  PROVE  SubSeq(SubSeq(s, 1, n), 1, k) = SubSeq(s, 1, k)
<1>1. Len(s) \in Nat /\ \A i \in 1 .. Len(s) : s[i] \in S
  BY LenProperties, ElementOfSeq
<1>2. CASE k = 0
  BY <1>2, SubSeqEmpty
<1>3. CASE k # 0
  <2>1. n \in 1 .. Len(s) /\ 1 \in 1 .. Len(s) /\ 1 \in 1 .. n - 1 + 1 /\ k \in 1 .. n - 1 + 1
    BY <1>1, <1>3
  <2>2. SubSeq(SubSeq(s, 1, n), 1, k) = SubSeq(s, 1 + 1 - 1, 1 + k - 1)
    BY <2>1, SubSeqOfSubSeq
  <2> QED BY <2>1, <2>2
<1> QED BY <1>2, <1>3

\* Resuming never takes a completed group out of the checkpoint, wherever
\* KeyboardInterrupt arrives.
THEOREM ResumeKeepsProgress == Spec => ProgressKept
<1> DEFINE Kept == /\ Len(checkpoint.work.completed) <= Len(checkpoint'.work.completed)
                   /\ SubSeq(checkpoint'.work.completed, 1, Len(checkpoint.work.completed))
                        = checkpoint.work.completed
<1>1. ASSUME OrderInv, [Next]_vars, resumed', checkpoint # None
      PROVE  Kept
  <2>1. checkpoint.work.completed \in Seq(Groups) /\ Len(checkpoint.work.completed) \in Nat
    BY <1>1, LenProperties DEF OrderInv, TypeOK, Results, Work
  <2>2. CASE checkpoint' = checkpoint
    BY <2>1, <2>2, SubSeqFull
  <2>3. CASE checkpoint' = Result /\ pc # "down" /\ UNCHANGED <<selected, resumed, work, policy, status>>
    <3>1. checkpoint'.work.completed = First(Done)
      BY <1>1, <2>3, ResultIsTyped DEF OrderInv, Visited
    <3>2. /\ Len(checkpoint.work.completed) \in 0 .. Done /\ Done \in 0 .. Len(selected)
          /\ checkpoint.work.completed = First(Len(checkpoint.work.completed))
          /\ selected \in Seq(Groups) /\ Len(First(Done)) = Done
      BY <1>1, <2>1, <2>3, Selected DEF OrderInv, OnDisk, Visited, Done, Chosen
    <3> QED BY <3>1, <3>2, PrefixOfPrefix DEF First
  <2>4. CASE UNCHANGED vars
    BY <2>2, <2>4 DEF vars
  <2> QED BY <1>1, <2>2, <2>3, <2>4, CheckpointWrites
<1>2. OrderInv /\ [Next]_vars => [resumed' /\ checkpoint # None => Kept]_vars
  BY <1>1
<1> QED BY <1>2, OrderInvHolds, PTL DEF Spec, ProgressKept
--------------------------------------------------------------------------------
(* The budgets *)

LEMMA BudgetTypes ==
  ASSUME OrderInv
  PROVE  /\ Retained(work) \in Nat /\ Len(queue) \in Nat
         /\ pc # "down" => policy \in Policies /\ policy.retained \in Nat /\ policy.size \in Nat
         /\ pc \in InGroup => current \in Groups
         /\ current \in Groups \cup {None} /\ None \notin Groups
         /\ \A g \in Groups : Len(GroupBlocks[g]) \in Nat
<1>1. Retained(work) \in Nat /\ Len(queue) \in Nat
  <2>1. /\ work.destination \in Seq(Destinations) /\ work.blocks \in Seq(Summaries)
        /\ queue \in Seq(Summaries)
    BY DEF OrderInv, TypeOK, Work
  <2>2. Len(work.destination) \in Nat /\ Len(work.blocks) \in Nat /\ Len(queue) \in Nat
    BY <2>1, LenProperties
  <2>3. \A m, n \in Nat : m + n \in Nat
    OBVIOUS
  <2> QED BY <2>2, <2>3, Zenon DEF Retained
<1>2. pc # "down" => policy \in Policies /\ policy.retained \in Nat /\ policy.size \in Nat
  BY PreflightAssumption DEF OrderInv, TypeOK
<1>3. pc \in InGroup => current \in Groups
  <2>1. Done \in 0 .. Chosen /\ Chosen \in Nat /\ \A i \in 1 .. Chosen : selected[i] \in Groups
    BY Selected
  <2> QED BY <2>1 DEF OrderInv, Visited
<1>4. \A g \in Groups : Len(GroupBlocks[g]) \in Nat
  <2>1. \A g \in Groups : GroupBlocks[g] \in Seq(AllBlocks)
    BY PreflightAssumption
  <2> QED BY <2>1, LenProperties
<1> QED BY <1>1, <1>2, <1>3, <1>4, PreflightAssumption DEF OrderInv, TypeOK

LEMMA BudgetInitHolds == Init => BudgetInv
<1> SUFFICES ASSUME Init PROVE BudgetInv
  OBVIOUS
<1> QED BY DEF Init, BudgetInv, Overshoot, RetainedOvershootBounded, PartialResultOnDisk

LEMMA InvokeKeepsBudget == OrderInv /\ BudgetInv /\ Invoke => BudgetInv'
<1> SUFFICES ASSUME OrderInv, BudgetInv, Invoke PROVE BudgetInv'
  OBVIOUS
<1>1. ASSUME NEW w \in Work, policy' \in Policies, Begin(w), Retained(w) <= policy'.retained,
             Marked(w.blocks, policy')
      PROVE  BudgetInv'
  <2>1. pc' = "loop" /\ work' = w /\ current' = None /\ outcome' = None /\ checkpoint' = checkpoint
    BY <1>1 DEF Begin
  <2>2. Retained(w) \in Nat /\ policy'.retained \in Nat
    <3>1. w.destination \in Seq(Destinations) /\ w.blocks \in Seq(Summaries)
      BY <1>1 DEF Work
    <3>2. Len(w.destination) \in Nat /\ Len(w.blocks) \in Nat
      BY <3>1, LenProperties
    <3>3. \A m, n \in Nat : m + n \in Nat
      OBVIOUS
    <3>4. policy'.retained \in Nat
      BY <1>1, PreflightAssumption
    <3> QED BY <3>2, <3>3, <3>4, Zenon DEF Retained
  <2>3. (Marked(work.blocks, policy))' /\ Retained(work)' = Retained(w)
    BY <1>1, <2>1 DEF Marked, Retained
  <2>4. Overshoot' /\ RetainedOvershootBounded'
    BY <1>1, <2>1, <2>2, <2>3 DEF Overshoot, RetainedOvershootBounded
  <2>5. (checkpoint # None => Marked(checkpoint.work.blocks, checkpoint.policy))'
    BY <2>1 DEF BudgetInv, Marked
  <2> QED BY <2>1, <2>3, <2>4, <2>5 DEF BudgetInv, PartialResultOnDisk
<1>2. CASE StartFresh
  <2>1. Begin(NoWork) /\ policy' \in Policies
    BY <1>2 DEF StartFresh
  <2>2. Retained(NoWork) <= policy'.retained
    BY <2>1, NoWorkIsWork, PreflightAssumption
  <2>3. Marked(NoWork.blocks, policy')
    BY DEF Marked, NoWork
  <2> QED BY <1>1, <2>1, <2>2, <2>3, NoWorkIsWork
<1>3. CASE Resume
  <2>1. /\ Begin(checkpoint.work) /\ policy' \in Policies /\ Resumable(checkpoint, policy')
        /\ checkpoint.work \in Work
    BY <1>3 DEF Resume, OrderInv, TypeOK, Results
  <2>2. Marked(checkpoint.work.blocks, policy')
    <3> SUFFICES ASSUME NEW i \in DOMAIN checkpoint.work.blocks,
                        BlockSize[checkpoint.work.blocks[i].block] > policy'.size
                 PROVE  FALSE
      BY DEF Marked
    <3>1. checkpoint.work.blocks[i] \in Summaries
      <4>1. checkpoint.work.blocks \in Seq(Summaries)
        BY <2>1 DEF Work
      <4> QED BY <4>1, LenProperties, ElementOfSeq
    <3>2. BlockSize[checkpoint.work.blocks[i].block] \in Nat /\ policy'.size \in Nat
      BY <2>1, <3>1, PreflightAssumption DEF Summaries
    <3> QED BY <2>1, <3>2 DEF Resumable
  <2> QED BY <1>1, <2>1, <2>2 DEF Resumable
<1>4. CASE RefuseResume
  BY <1>4 DEF RefuseResume, BudgetInv, Marked, Overshoot, RetainedOvershootBounded, PartialResultOnDisk
<1> QED BY <1>2, <1>3, <1>4 DEF Invoke

LEMMA GroupKeepsBudget == OrderInv /\ BudgetInv /\ Group => BudgetInv'
<1> SUFFICES ASSUME OrderInv, BudgetInv, Group PROVE BudgetInv'
  OBVIOUS
<1> USE DEF BudgetInv
<1>1. /\ UNCHANGED <<policy, work, checkpoint, outcome>> /\ pc # "down"
      /\ Retained(work)' = Retained(work)
  BY DEF Group, NextGroup, LoopDone, StopBeforeGroup, Enter, ExamineChunk, StopInsideChunk,
    ChunksDone, Break, Retained
<1>2. /\ (Marked(work.blocks, policy))' = Marked(work.blocks, policy)
      /\ (Marked(checkpoint.work.blocks, checkpoint.policy))'
            = Marked(checkpoint.work.blocks, checkpoint.policy)
  BY <1>1 DEF Marked
<1>3. PartialResultOnDisk'
  BY <1>1 DEF PartialResultOnDisk
<1>4. /\ Retained(work) \in Nat /\ policy.retained \in Nat
      /\ pc \in InGroup => current \in Groups
      /\ \A g \in Groups : Len(GroupBlocks[g]) \in Nat
      /\ None \notin Groups
  BY <1>1, BudgetTypes
<1>5. CASE NextGroup
  <2>1. pc' = "group" /\ Retained(work)' <= policy'.retained /\ current' \in Groups \cup {None}
    <3>1. pc = "loop" /\ pc' = "group" /\ current' = Head(pending) /\ pending # <<>>
      BY <1>5 DEF NextGroup
    <3>2. Head(pending) \in Groups
      BY <3>1, HeadTailProperties DEF OrderInv, TypeOK
    <3> QED BY <1>1, <3>1, <3>2 DEF Overshoot
  <2>2. Overshoot' /\ RetainedOvershootBounded'
    BY <1>1, <1>4, <2>1 DEF Overshoot, RetainedOvershootBounded
  <2> QED BY <1>1, <1>2, <1>3, <2>1, <2>2
<1>6. CASE ChunksDone
  <2>1. /\ pc = "chunk" /\ pc' = "blocks" /\ current' = current /\ current \in Groups
        /\ policy \in Policies /\ policy.size \in Nat
        /\ queue' = [i \in DOMAIN GroupBlocks[current] |->
                       Summary(current, GroupBlocks[current][i])]
    BY <1>4, <1>6, BudgetTypes DEF ChunksDone, InGroup
  <2>2. Len(queue') = Len(GroupBlocks[current]) /\ Len(GroupBlocks[current]) \in Nat
    BY <2>1, QueueOfGroup
  <2>3. Overshoot' /\ RetainedOvershootBounded'
    BY <1>1, <1>4, <2>1, <2>2 DEF Overshoot, RetainedOvershootBounded
  <2>4. Marked(queue', policy')
    BY <1>1, <2>1 DEF Marked, Summary
  <2>5. (Marked(queue, policy))'
    BY <2>4 DEF Marked
  <2> QED BY <1>1, <1>2, <1>3, <2>1, <2>3, <2>5
<1>7. CASE ~ NextGroup /\ ~ ChunksDone
  <2>1. /\ current' = current
        /\ \/ pc = "loop" /\ pc' = "finally"
           \/ pc = "group" /\ pc' \in {"destination", "chunk", "finally"}
           \/ pc = "chunk" /\ pc' \in {"chunk", "finally"}
    BY <1>7 DEF Group, LoopDone, StopBeforeGroup, Enter, ExamineChunk, StopInsideChunk, Break
  <2>2. pc \in InGroup => Len(GroupBlocks[current]) \in Nat
    BY <1>4
  <2>3. current # None => Len(GroupBlocks[current]) \in Nat
    BY <1>4, BudgetTypes
  <2>4. Overshoot'
    BY <1>1, <1>4, <2>1, <2>2 DEF Overshoot, InGroup
  <2>5. RetainedOvershootBounded'
    BY <1>1, <1>4, <2>1, <2>3 DEF Overshoot, RetainedOvershootBounded
  <2> QED BY <1>1, <1>2, <1>3, <2>1, <2>4, <2>5
<1> QED BY <1>5, <1>6, <1>7

LEMMA MarkedMoves ==
  ASSUME NEW s \in Seq(Summaries), NEW q \in Seq(Summaries), q # <<>>, NEW p,
         Marked(s, p), Marked(q, p)
  PROVE  Marked(Append(s, Head(q)), p) /\ Marked(Tail(q), p)
<1>1. /\ Len(s) \in Nat /\ DOMAIN s = 1 .. Len(s) /\ Len(q) \in Nat \ {0} /\ DOMAIN q = 1 .. Len(q)
  BY LenProperties, EmptySeq
<1>2. Head(q) = q[1] /\ Head(q) \in Summaries
  BY HeadTailProperties
<1>3. /\ Append(s, Head(q)) \in Seq(Summaries) /\ Len(Append(s, Head(q))) = Len(s) + 1
      /\ \A i \in 1 .. Len(s) : Append(s, Head(q))[i] = s[i]
      /\ Append(s, Head(q))[Len(s) + 1] = q[1]
  BY <1>2, AppendProperties
<1>4. DOMAIN Append(s, Head(q)) = 1 .. Len(s) + 1
  BY <1>3, LenProperties
<1>5. Marked(Append(s, Head(q)), p)
  <2> SUFFICES ASSUME NEW i \in 1 .. Len(s) + 1
               PROVE  BlockSize[Append(s, Head(q))[i].block] > p.size => Append(s, Head(q))[i].exceeds
    BY <1>4 DEF Marked
  <2>1. CASE i \in 1 .. Len(s)
    BY <1>1, <1>3, <2>1 DEF Marked
  <2>2. CASE i = Len(s) + 1
    <3>1. 1 \in DOMAIN q
      BY <1>1
    <3> QED BY <1>3, <2>2, <3>1 DEF Marked
  <2> QED BY <1>1, <2>1, <2>2
<1>6. Marked(Tail(q), p)
  <2>1. /\ Tail(q) \in Seq(Summaries) /\ Len(Tail(q)) = Len(q) - 1
        /\ \A i \in 1 .. Len(Tail(q)) : Tail(q)[i] = q[i + 1]
    BY HeadTailProperties
  <2>2. DOMAIN Tail(q) = 1 .. Len(Tail(q))
    BY <2>1, LenProperties
  <2>3. \A i \in DOMAIN Tail(q) : i + 1 \in DOMAIN q /\ Tail(q)[i] = q[i + 1]
    BY <1>1, <2>1, <2>2
  <2> QED BY <2>3 DEF Marked
<1> QED BY <1>5, <1>6

LEMMA RecordKeepsBudget == OrderInv /\ BudgetInv /\ Record => BudgetInv'
<1> SUFFICES ASSUME OrderInv, BudgetInv, Record PROVE BudgetInv'
  OBVIOUS
<1> USE DEF BudgetInv
<1>1. /\ UNCHANGED <<policy, current>> /\ pc # "down" /\ outcome = None
  BY DEF Record, AppendBlock, BlocksDone, AppendDestination, AppendCompleted, StopRetained,
    WithinRetained, PeriodicPersist, SkipPersist, Return, Break, OrderInv, Reported
<1>2. /\ Retained(work) \in Nat /\ policy.retained \in Nat /\ Len(queue) \in Nat
      /\ pc \in InGroup => current \in Groups
      /\ current # None => Len(GroupBlocks[current]) \in Nat
      /\ None \notin Groups /\ work \in Work /\ queue \in Seq(Summaries)
  BY <1>1, BudgetTypes DEF OrderInv, TypeOK
<1>3. CASE AppendBlock
  <2>1. /\ pc = "blocks" /\ pc' = "blocks" /\ queue # <<>> /\ queue' = Tail(queue)
        /\ work' = [work EXCEPT !.blocks = Append(work.blocks, Head(queue))]
        /\ UNCHANGED <<checkpoint, outcome>>
    BY <1>3 DEF AppendBlock
  <2>2. work.blocks \in Seq(Summaries) /\ work.destination \in Seq(Destinations)
    BY <1>2 DEF Work
  <2>3. /\ work'.blocks = Append(work.blocks, Head(queue)) /\ work'.destination = work.destination
        /\ Len(work.blocks) \in Nat /\ Len(work.destination) \in Nat
    BY <1>2, <2>1, <2>2, LenProperties DEF Work
  <2>4. Len(work'.blocks) = Len(work.blocks) + 1 /\ Len(queue') = Len(queue) - 1
    BY <1>2, <2>1, <2>2, <2>3, AppendProperties, HeadTailProperties
  <2>5. Retained(work') = Retained(work) + 1
    <3>1. \A m, n \in Nat : m + (n + 1) = (m + n) + 1
      OBVIOUS
    <3> QED BY <2>3, <2>4, <3>1, Zenon DEF Retained
  <2>6. Overshoot' /\ RetainedOvershootBounded'
    <3>1. Retained(work) + Len(queue) <= policy.retained + Len(GroupBlocks[current]) /\ current # None
      BY <1>2, <2>1 DEF Overshoot, InGroup
    <3>2. Len(queue) # 0
      BY <1>2, <2>1, EmptySeq
    <3> QED BY <1>1, <1>2, <2>1, <2>4, <2>5, <3>1, <3>2 DEF Overshoot, RetainedOvershootBounded
  <2>7. Marked(work'.blocks, policy) /\ Marked(queue', policy)
    BY <1>2, <2>1, <2>2, <2>3, MarkedMoves
  <2> QED BY <1>1, <2>1, <2>6, <2>7 DEF Marked, PartialResultOnDisk
<1>4. CASE BlocksDone
  <2>1. pc = "blocks" /\ pc' = "destination" /\ UNCHANGED <<work, checkpoint, outcome>>
    BY <1>4 DEF BlocksDone
  <2>2. Overshoot' /\ RetainedOvershootBounded'
    BY <1>1, <1>2, <2>1 DEF Overshoot, RetainedOvershootBounded, InGroup
  <2> QED BY <1>1, <2>1, <2>2 DEF Marked, PartialResultOnDisk
<1>5. CASE AppendDestination
  <2>1. /\ pc = "destination" /\ pc' = "completed" /\ UNCHANGED <<checkpoint, outcome>>
        /\ work' = [work EXCEPT !.destination =
                      Append(work.destination, [group |-> current, chunks |-> chunk])]
    BY <1>5 DEF AppendDestination
  <2>2. /\ work.blocks \in Seq(Summaries) /\ work.destination \in Seq(Destinations)
        /\ [group |-> current, chunks |-> chunk] \in Destinations
    BY <1>2, <2>1 DEF Work, Destinations, OrderInv, TypeOK, InGroup
  <2>3. /\ work'.blocks = work.blocks
        /\ work'.destination = Append(work.destination, [group |-> current, chunks |-> chunk])
        /\ Len(work.blocks) \in Nat /\ Len(work.destination) \in Nat
    BY <1>2, <2>1, <2>2, LenProperties DEF Work
  <2>4. Len(work'.destination) = Len(work.destination) + 1
    BY <2>2, <2>3, AppendProperties
  <2>5. Retained(work') = Retained(work) + 1
    <3>1. \A m, n \in Nat : (m + 1) + n = (m + n) + 1
      OBVIOUS
    <3> QED BY <2>3, <2>4, <3>1, Zenon DEF Retained
  <2>6. Overshoot' /\ RetainedOvershootBounded'
    BY <1>1, <1>2, <2>1, <2>5 DEF Overshoot, RetainedOvershootBounded, InGroup
  <2> QED BY <1>1, <2>1, <2>3, <2>6 DEF Marked, PartialResultOnDisk
<1>6. CASE AppendCompleted
  <2>1. /\ pc = "completed" /\ pc' = "retained" /\ UNCHANGED <<checkpoint, outcome>>
        /\ work'.blocks = work.blocks /\ work'.destination = work.destination
    BY <1>2, <1>6 DEF AppendCompleted, Work
  <2>2. Retained(work') = Retained(work)
    BY <2>1 DEF Retained
  <2>3. Overshoot' /\ RetainedOvershootBounded'
    BY <1>1, <1>2, <2>1, <2>2 DEF Overshoot, RetainedOvershootBounded
  <2> QED BY <1>1, <2>1, <2>3 DEF Marked, PartialResultOnDisk
<1>7. CASE StopRetained \/ WithinRetained \/ SkipPersist
  <2>1. /\ UNCHANGED <<work, checkpoint, outcome>>
        /\ \/ pc = "retained" /\ pc' = "finally"
           \/ pc = "retained" /\ pc' = "periodic" /\ ~ Retained(work) > policy.retained
           \/ pc = "periodic" /\ pc' = "loop"
    BY <1>7 DEF StopRetained, WithinRetained, SkipPersist, Break, OverRetainedBudget
  <2>2. Overshoot' /\ RetainedOvershootBounded'
    BY <1>1, <1>2, <2>1 DEF Overshoot, RetainedOvershootBounded
  <2> QED BY <1>1, <2>1, <2>2 DEF Marked, PartialResultOnDisk
<1>8. CASE PeriodicPersist
  <2>1. pc' = "loop" /\ pc = "periodic" /\ UNCHANGED <<work, outcome>> /\ checkpoint' = Result
    BY <1>8 DEF PeriodicPersist
  <2>2. checkpoint'.work.blocks = work.blocks /\ checkpoint'.policy = policy
    BY <1>1, <2>1, ResultIsTyped
  <2>3. Overshoot' /\ RetainedOvershootBounded'
    BY <1>1, <1>2, <2>1 DEF Overshoot, RetainedOvershootBounded
  <2> QED BY <1>1, <2>1, <2>2, <2>3 DEF Marked, PartialResultOnDisk
<1>9. CASE Return
  <2>1. /\ pc' = "down" /\ UNCHANGED work /\ outcome' = Result
        /\ checkpoint' = IF PersistedFinally(status) THEN Result ELSE checkpoint
    BY <1>9 DEF Return
  <2>2. Result.work.blocks = work.blocks /\ Result.policy = policy /\ Result.status = status
    BY <1>1, ResultIsTyped
  <2>3. Overshoot' /\ RetainedOvershootBounded'
    BY <2>1 DEF Overshoot, RetainedOvershootBounded
  <2>4. PartialResultOnDisk'
    BY <2>1, <2>2 DEF PartialResultOnDisk, PersistedFinally
  <2>5. (checkpoint # None => Marked(checkpoint.work.blocks, checkpoint.policy))'
    BY <1>1, <2>1, <2>2 DEF Marked
  <2> QED BY <2>1, <2>3, <2>4, <2>5
<1> QED BY <1>3, <1>4, <1>5, <1>6, <1>7, <1>8, <1>9 DEF Record

LEMMA EnvironmentKeepsBudget ==
  OrderInv /\ BudgetInv /\ (Interrupt \/ NumericalFailure \/ OtherFailure \/ Crash) => BudgetInv'
<1> SUFFICES ASSUME OrderInv, BudgetInv, Interrupt \/ NumericalFailure \/ OtherFailure \/ Crash
             PROVE  BudgetInv'
  OBVIOUS
<1> USE DEF BudgetInv
<1>1. UNCHANGED <<policy, current, work, queue>> /\ pc # "down"
  BY PreflightAssumption DEF Interrupt, NumericalFailure, OtherFailure, Crash
<1>2. Marked(work.blocks, policy)' /\ RetainedOvershootBounded
  BY <1>1 DEF Marked
<1>3. CASE Interrupt \/ NumericalFailure
  <2>1. pc' = "finally" /\ UNCHANGED <<checkpoint, outcome>>
    BY <1>3 DEF Interrupt, NumericalFailure
  <2>2. Overshoot' /\ RetainedOvershootBounded'
    BY <1>1, <1>2, <2>1 DEF Overshoot, RetainedOvershootBounded
  <2> QED BY <1>1, <1>2, <2>1, <2>2 DEF Marked, PartialResultOnDisk
<1>4. CASE OtherFailure
  <2>1. /\ pc' = "down" /\ outcome' = None
        /\ checkpoint' = IF PersistedFinally(status) THEN Result ELSE checkpoint
    BY <1>4 DEF OtherFailure
  <2>2. Result.work.blocks = work.blocks /\ Result.policy = policy
    BY <1>1, ResultIsTyped
  <2>3. (checkpoint # None => Marked(checkpoint.work.blocks, checkpoint.policy))'
    BY <1>1, <2>1, <2>2 DEF Marked
  <2> QED BY <2>1, <2>3 DEF Overshoot, RetainedOvershootBounded, PartialResultOnDisk
<1>5. CASE Crash
  BY <1>1, <1>5 DEF Crash, Marked, Overshoot, RetainedOvershootBounded, PartialResultOnDisk
<1> QED BY <1>3, <1>4, <1>5

LEMMA BudgetInvHolds == Spec => []BudgetInv
<1>1. OrderInv /\ BudgetInv /\ [Next]_vars => BudgetInv'
  <2>1. BudgetInv /\ UNCHANGED vars => BudgetInv'
    <3> SUFFICES ASSUME BudgetInv, UNCHANGED vars PROVE BudgetInv'
      OBVIOUS
    <3>1. UNCHANGED <<pc, policy, work, queue, current, checkpoint, outcome>>
      BY DEF vars, memory
    <3> QED BY <3>1 DEF BudgetInv, Marked, Overshoot, RetainedOvershootBounded, PartialResultOnDisk
  <2> QED BY <2>1, InvokeKeepsBudget, GroupKeepsBudget, RecordKeepsBudget, EnvironmentKeepsBudget
      DEF Next, Process
<1> QED BY <1>1, BudgetInitHolds, OrderInvHolds, PTL DEF Spec

\* A block that exceeds the policy a checkpoint was written under is marked,
\* although it was measured under an earlier one.
THEOREM UnsafeBlocksAreMarked == Spec => []UnsafeBlocksMarked
<1>1. BudgetInv => UnsafeBlocksMarked
  BY DEF BudgetInv, Marked, UnsafeBlocksMarked
<1> QED BY <1>1, BudgetInvHolds, PTL

\* The summaries kept exceed the budget in force by those of one group at most.
THEOREM OvershootIsBounded == Spec => []RetainedOvershootBounded
<1>1. BudgetInv => RetainedOvershootBounded
  BY DEF BudgetInv
<1> QED BY <1>1, BudgetInvHolds, PTL

\* A partial result returned at a deadline or an interrupt is on disk.
THEOREM PartialResultIsOnDisk == Spec => []PartialResultOnDisk
<1>1. BudgetInv => PartialResultOnDisk
  BY DEF BudgetInv
<1> QED BY <1>1, BudgetInvHolds, PTL
--------------------------------------------------------------------------------
(* What the summaries say *)

Listed(g) == [i \in DOMAIN GroupBlocks[g] |-> [group |-> g, block |-> GroupBlocks[g][i]]]

\* The lists that recording a group appends: typed, and of that group.
Owned(own, E) ==
  /\ own \in [Groups -> Seq(E)]
  /\ \A g \in Groups : \A x \in Range(own[g]) : x.group = g

LEMMA ListedIsSeq == \A g \in Groups : Listed(g) \in Seq(Named) /\ \A x \in Range(Listed(g)) : x.group = g
<1> SUFFICES ASSUME NEW g \in Groups
             PROVE  Listed(g) \in Seq(Named) /\ \A x \in Range(Listed(g)) : x.group = g
  OBVIOUS
<1>1. GroupBlocks[g] \in Seq(AllBlocks)
  BY PreflightAssumption
<1>2. /\ Len(GroupBlocks[g]) \in Nat /\ DOMAIN GroupBlocks[g] = 1 .. Len(GroupBlocks[g])
      /\ \A i \in 1 .. Len(GroupBlocks[g]) : GroupBlocks[g][i] \in AllBlocks
  BY <1>1, LenProperties, ElementOfSeq
<1>3. Listed(g) \in Seq(Named)
  BY <1>2 DEF Listed, Named
<1>4. ASSUME NEW x \in Range(Listed(g)) PROVE x.group = g
  <2>1. PICK i \in DOMAIN Listed(g) : x = Listed(g)[i]
    BY DEF Range
  <2>2. DOMAIN Listed(g) = DOMAIN GroupBlocks[g]
    BY DEF Listed
  <2>3. x = [group |-> g, block |-> GroupBlocks[g][i]]
    BY <2>1, <2>2 DEF Listed
  <2> QED BY <2>3
<1> QED BY <1>3, <1>4

LEMMA BlocksOfIsOwned ==
  /\ Owned(BlocksOf, Named)
  /\ mode = "structural" => \A g \in Groups : BlocksOf[g] = <<>>
  /\ mode # "structural" => \A g \in Groups : BlocksOf[g] = Listed(g)
<1>1. \A g \in Groups : BlocksOf[g] = IF mode = "structural" THEN <<>> ELSE Listed(g)
  BY DEF BlocksOf, Listed
<1>2. \A g \in Groups : <<>> \in Seq(Named) /\ Range(<<>>) = {}
  BY EmptySeq DEF Range
<1>3. ASSUME NEW g \in Groups
      PROVE  BlocksOf[g] \in Seq(Named) /\ \A x \in Range(BlocksOf[g]) : x.group = g
  <2>1. CASE mode = "structural"
    <3>1. BlocksOf[g] = <<>>
      BY <1>1, <2>1
    <3> QED BY <1>2, <3>1, Zenon
  <2>2. CASE mode # "structural"
    <3>1. BlocksOf[g] = Listed(g)
      BY <1>1, <2>2
    <3> QED BY <3>1, ListedIsSeq, Zenon
  <2> QED BY <2>1, <2>2
<1>4. BlocksOf = [g \in Groups |-> BlocksOf[g]]
  BY DEF BlocksOf
<1>5. BlocksOf \in [Groups -> Seq(Named)]
  <2>1. PICK own : own = BlocksOf
    OBVIOUS
  <2>2. own = [g \in Groups |-> own[g]] /\ \A g \in Groups : own[g] \in Seq(Named)
    BY <1>3, <1>4, <2>1
  <2>3. own \in [Groups -> Seq(Named)]
    BY <2>2
  <2> QED BY <2>1, <2>3
<1>6. Owned(BlocksOf, Named)
  BY <1>3, <1>5 DEF Owned
<1> QED BY <1>1, <1>6

LEMMA DestinationOfIsOwned ==
  /\ Owned(DestinationOf, Destinations)
  /\ \A g \in Groups : /\ DestinationOf[g] = <<[group |-> g, chunks |-> ChunksOf(g)]>>
                       /\ Len(DestinationOf[g]) = 1 /\ Range(DestinationOf[g]) = {DestinationOf[g][1]}
<1>1. ASSUME NEW g \in Groups PROVE [group |-> g, chunks |-> ChunksOf(g)] \in Destinations
  BY PreflightAssumption DEF ChunksOf, Destinations
<1>2. \A g \in Groups : /\ DestinationOf[g] = <<[group |-> g, chunks |-> ChunksOf(g)]>>
                        /\ Len(DestinationOf[g]) = 1 /\ Range(DestinationOf[g]) = {DestinationOf[g][1]}
                        /\ DestinationOf[g][1] = [group |-> g, chunks |-> ChunksOf(g)]
  BY DEF DestinationOf, Range
<1>3. DestinationOf \in [Groups -> Seq(Destinations)]
  BY <1>1 DEF DestinationOf
<1>4. ASSUME NEW g \in Groups, NEW x \in Range(DestinationOf[g]) PROVE x.group = g
  <2>1. x = [group |-> g, chunks |-> ChunksOf(g)]
    BY <1>2
  <2> QED BY <2>1
<1> QED BY <1>2, <1>3, <1>4 DEF Owned

\* The same group or an earlier one: what is appended keeps the order.
LEMMA CoversAppend ==
  ASSUME selected \in Seq(Groups), IsInjective(selected), NEW E, NEW own, Owned(own, E),
         NEW list \in Seq(E), NEW n \in 0 .. Len(selected) - 1, Covers(list, own, n),
         NEW x \in Range(own[selected[n + 1]])
  PROVE  Append(list, x) \in Seq(E) /\ Covers(Append(list, x), own, n)
<1>1. /\ Len(list) \in Nat /\ DOMAIN list = 1 .. Len(list) /\ Len(selected) \in Nat
      /\ DOMAIN selected = 1 .. Len(selected) /\ \A p \in 1 .. Len(selected) : selected[p] \in Groups
  BY LenProperties, ElementOfSeq
<1>2. n + 1 \in DOMAIN selected /\ selected[n + 1] \in Groups /\ x.group = selected[n + 1]
  BY <1>1 DEF Owned
<1>3. x \in E
  <2>1. own[selected[n + 1]] \in Seq(E)
    BY <1>2 DEF Owned
  <2>2. \A i \in DOMAIN own[selected[n + 1]] : own[selected[n + 1]][i] \in E
    BY <2>1, LenProperties, ElementOfSeq
  <2> QED BY <2>2 DEF Range
<1>4. PICK longer \in Seq(E) :
        /\ longer = Append(list, x) /\ Len(longer) = Len(list) + 1
        /\ DOMAIN longer = 1 .. Len(list) + 1
        /\ \A i \in 1 .. Len(list) : longer[i] = list[i]
        /\ longer[Len(list) + 1] = x
  <2> DEFINE more == Append(list, x)
  <2>1. /\ more \in Seq(E) /\ Len(more) = Len(list) + 1
        /\ \A i \in 1 .. Len(list) : more[i] = list[i]
        /\ more[Len(list) + 1] = x
    BY <1>1, <1>3
  <2>2. more = Append(list, x)
    OBVIOUS
  <2> HIDE DEF more
  <2>3. DOMAIN more = 1 .. Len(list) + 1
    BY <2>1, LenProperties
  <2> QED BY <2>1, <2>2, <2>3
<1>5. \A p \in 1 .. n : selected[p] \in Groups /\ selected[p] # x.group
  BY <1>1, <1>2 DEF IsInjective
<1>6. \A i \in 1 .. Len(list) : \E p \in 1 .. n + 1 : list[i].group = selected[p]
  <2> SUFFICES ASSUME NEW i \in 1 .. Len(list) PROVE \E p \in 1 .. n + 1 : list[i].group = selected[p]
    OBVIOUS
  <2>1. PICK p \in DOMAIN selected : p <= n + 1 /\ list[i] \in Range(own[selected[p]])
    BY <1>1 DEF Covers, InOrder
  <2>2. list[i].group = selected[p] /\ p \in 1 .. n + 1
    BY <1>1, <2>1 DEF Owned
  <2> QED BY <2>2
<1>7. InOrder(longer, own, n)
  <2> SUFFICES ASSUME NEW i \in DOMAIN longer
               PROVE  \E p \in DOMAIN selected :
                        /\ p <= n + 1 /\ longer[i] \in Range(own[selected[p]])
                        /\ \A j \in 1 .. i - 1 : \E q \in 1 .. p : longer[j].group = selected[q]
    BY DEF InOrder
  <2>1. CASE i = Len(list) + 1
    <3>1. \A j \in 1 .. i - 1 : \E q \in 1 .. n + 1 : longer[j].group = selected[q]
      BY <1>1, <1>4, <1>6, <2>1
    <3> QED BY <1>2, <1>4, <2>1, <3>1
  <2>2. CASE i # Len(list) + 1
    <3>1. i \in 1 .. Len(list) /\ \A j \in 1 .. i - 1 : j \in 1 .. Len(list)
      BY <1>1, <1>4, <2>2
    <3>2. PICK p \in DOMAIN selected :
            /\ p <= n + 1 /\ list[i] \in Range(own[selected[p]])
            /\ \A j \in 1 .. i - 1 : \E q \in 1 .. p : list[j].group = selected[q]
      BY <1>1, <3>1 DEF Covers, InOrder
    <3> QED BY <1>4, <3>1, <3>2
  <2> QED BY <2>1, <2>2
<1>8. ASSUME NEW p \in 1 .. n PROVE Whole(longer, own, selected[p])
  <2>1. PICK e \in 0 .. Len(list) :
          /\ Len(own[selected[p]]) <= e
          /\ \A k \in 1 .. Len(own[selected[p]]) :
               list[e - Len(own[selected[p]]) + k] = own[selected[p]][k]
          /\ \A i \in e + 1 .. Len(list) : list[i].group # selected[p]
    BY DEF Covers, Whole
  <2>2. Len(own[selected[p]]) \in Nat
    BY <1>5, LenProperties DEF Owned
  <2> DEFINE m == Len(own[selected[p]])
  <2> HIDE DEF m
  <2>3. ASSUME NEW k \in 1 .. m PROVE longer[e - m + k] = own[selected[p]][k]
    <3>1. e - m + k \in 1 .. Len(list)
      BY <1>1, <2>1, <2>2 DEF m
    <3> QED BY <1>4, <2>1, <3>1 DEF m
  <2>4. ASSUME NEW i \in e + 1 .. Len(longer) PROVE longer[i].group # selected[p]
    <3>1. i \in e + 1 .. Len(list) \/ i = Len(list) + 1
      BY <1>1, <1>4
    <3>2. CASE i \in e + 1 .. Len(list)
      <4>1. i \in 1 .. Len(list)
        BY <1>1, <3>2
      <4> QED BY <1>4, <2>1, <3>2, <4>1
    <3>3. CASE i = Len(list) + 1
      BY <1>4, <1>5, <3>3
    <3> QED BY <3>1, <3>2, <3>3
  <2>5. e \in 0 .. Len(longer)
    BY <1>1, <1>4
  <2> QED BY <2>1, <2>3, <2>4, <2>5 DEF Whole, m
<1> QED BY <1>4, <1>7, <1>8 DEF Covers

\* A list that ends with the entries of the next group covers that group as well.
LEMMA CoversNext ==
  ASSUME selected \in Seq(Groups), NEW E, NEW own, Owned(own, E),
         NEW list \in Seq(E), NEW n \in 0 .. Len(selected) - 1, Covers(list, own, n),
         Ends(list, own[selected[n + 1]])
  PROVE  Covers(list, own, n + 1)
<1>1. /\ Len(list) \in Nat /\ Len(selected) \in Nat /\ DOMAIN selected = 1 .. Len(selected)
  BY LenProperties
<1>2. InOrder(list, own, n + 1)
  <2>1. \A p \in DOMAIN selected : p <= n + 1 => p <= (n + 1) + 1
    BY <1>1
  <2> QED BY <2>1 DEF Covers, InOrder
<1>3. Whole(list, own, selected[n + 1])
  <2>1. Len(list) \in 0 .. Len(list) /\ Len(list) + 1 .. Len(list) = {}
    BY <1>1
  <2> QED BY <2>1 DEF Whole, Ends
<1>4. \A p \in 1 .. n + 1 : p \in 1 .. n \/ p = n + 1
  BY <1>1
<1> QED BY <1>2, <1>3, <1>4 DEF Covers

LEMMA NothingCovers ==
  ASSUME NEW own
  PROVE  Covers(<<>>, own, 0)
<1>1. DOMAIN <<>> = {} /\ 1 .. 0 = {}
  OBVIOUS
<1> QED BY <1>1 DEF Covers, InOrder

LEMMA ConcatEnds ==
  ASSUME NEW E, NEW a \in Seq(E), NEW b \in Seq(E)
  PROVE  Ends(a \o b, b)
<1>1. Len(a) \in Nat /\ Len(b) \in Nat
  BY LenProperties
<1>2. PICK c \in Seq(E) :
        /\ c = a \o b /\ Len(c) = Len(a) + Len(b)
        /\ \A k \in 1 .. Len(b) : c[Len(a) + k] = b[k]
  <2> DEFINE both == a \o b
  <2>1. /\ both \in Seq(E) /\ Len(both) = Len(a) + Len(b)
        /\ \A k \in 1 .. Len(b) : both[Len(a) + k] = b[k]
    BY <1>1
  <2>2. both = a \o b
    OBVIOUS
  <2> HIDE DEF both
  <2> QED BY <2>1, <2>2
<1>3. Len(b) <= Len(c) /\ Len(c) - Len(b) = Len(a)
  BY <1>1, <1>2
<1> QED BY <1>2, <1>3 DEF Ends

\* BlocksUpTo satisfies its recursion: a function that does exists.
LEMMA BlocksOfGroups ==
  ASSUME selected \in Seq(Groups)
  PROVE  /\ BlocksUpTo[0] = <<>>
         /\ \A n \in 1 .. Len(selected) :
              BlocksUpTo[n] = BlocksUpTo[n - 1] \o BlocksOf[selected[n]]
<1> DEFINE N == Len(selected)
           Body(h) == [n \in 0 .. N |-> IF n = 0 THEN <<>> ELSE h[n - 1] \o BlocksOf[selected[n]]]
           Longer(n, s) == s \o BlocksOf[selected[n]]
           Good(h, n) == h[0] = <<>> /\ \A k \in 1 .. n : h[k] = Longer(k, h[k - 1])
           Reached == {n \in 0 .. N : \E h : h = [k \in 0 .. n |-> h[k]] /\ Good(h, n)}
<1>1. N \in Nat
  BY LenProperties
<1>2. 0 \in Reached
  <2> DEFINE h == [k \in 0 .. 0 |-> <<>>]
  <2>1. h = [k \in 0 .. 0 |-> h[k]] /\ Good(h, 0)
    OBVIOUS
  <2>2. 0 \in 0 .. N
    BY <1>1
  <2> HIDE DEF h, Good
  <2> QED BY <2>1, <2>2
<1>3. ASSUME NEW n \in 1 .. N, n - 1 \in Reached PROVE n \in Reached
  <2>1. PICK h : h = [k \in 0 .. n - 1 |-> h[k]] /\ Good(h, n - 1)
    BY <1>3
  <2> DEFINE new == [k \in 0 .. n |-> IF k = n THEN Longer(n, h[n - 1]) ELSE h[k]]
  <2>2. new[0] = h[0] /\ new[n] = Longer(n, h[n - 1]) /\ \A k \in 0 .. n - 1 : new[k] = h[k]
    <3>1. n \in 0 .. n /\ 0 \in 0 .. n /\ 0 # n /\ \A k \in 0 .. n - 1 : k \in 0 .. n /\ k # n
      BY <1>1
    <3> HIDE DEF Longer
    <3> QED BY <3>1
  <2>3. new = [k \in 0 .. n |-> new[k]]
    OBVIOUS
  <2> HIDE DEF new, Longer
  <2>4. ASSUME NEW k \in 1 .. n PROVE new[k] = Longer(k, new[k - 1])
    <3>1. CASE k = n
      <4>1. n - 1 \in 0 .. n - 1
        BY <1>1
      <4> QED BY <2>2, <3>1, <4>1
    <3>2. CASE k # n
      <4>1. k \in 1 .. n - 1 /\ k \in 0 .. n - 1 /\ k - 1 \in 0 .. n - 1
        BY <1>1, <3>2
      <4> QED BY <2>1, <2>2, <4>1
    <3> QED BY <3>1, <3>2
  <2>5. Good(new, n)
    BY <2>1, <2>2, <2>4
  <2>6. n \in 0 .. N
    BY <1>1
  <2> QED BY <2>3, <2>5, <2>6
<1>4. \E h : h = Body(h)
  <2>1. N \in Reached
    <3> HIDE DEF Reached
    <3>1. 0 .. N \subseteq Reached
      BY <1>1, <1>2, <1>3, IntervalInduction
    <3> QED BY <1>1, <3>1
  <2>2. PICK h : h = [k \in 0 .. N |-> h[k]] /\ Good(h, N)
    BY <2>1
  <2>3. \A k \in 0 .. N : h[k] = Body(h)[k]
    <3> SUFFICES ASSUME NEW k \in 0 .. N PROVE h[k] = Body(h)[k]
      OBVIOUS
    <3>1. CASE k = 0
      BY <2>2, <3>1
    <3>2. CASE k # 0
      <4>1. k \in 1 .. N
        BY <1>1, <3>2
      <4> QED BY <2>2, <3>2, <4>1
    <3> QED BY <3>1, <3>2
  <2>4. Body(h) = [k \in 0 .. N |-> Body(h)[k]]
    OBVIOUS
  <2> HIDE DEF Body
  <2> QED BY <2>2, <2>3, <2>4
<1>5. BlocksUpTo = Body(BlocksUpTo)
  <2>1. BlocksUpTo = CHOOSE h : h = Body(h)
    BY DEF BlocksUpTo
  <2> HIDE DEF Body
  <2> QED BY <1>4, <2>1
<1>6. Body(BlocksUpTo)[0] = <<>>
  BY <1>1
<1>7. ASSUME NEW n \in 1 .. N PROVE Body(BlocksUpTo)[n] = Longer(n, BlocksUpTo[n - 1])
  BY <1>1
<1> HIDE DEF Body
<1> QED BY <1>5, <1>6, <1>7

LEMMA BlocksOfGroupsTyped ==
  ASSUME selected \in Seq(Groups)
  PROVE  \A n \in 0 .. Len(selected) : BlocksUpTo[n] \in Seq(Named)
<1> DEFINE Typed == {n \in 0 .. Len(selected) : BlocksUpTo[n] \in Seq(Named)}
<1>1. Len(selected) \in Nat /\ \A i \in 1 .. Len(selected) : selected[i] \in Groups
  BY LenProperties, ElementOfSeq
<1>2. 0 \in Typed
  <2>1. <<>> \in Seq(Named)
    BY EmptySeq
  <2>2. BlocksUpTo[0] = <<>>
    BY BlocksOfGroups
  <2>3. BlocksUpTo[0] \in Seq(Named)
    BY <2>1, <2>2, Zenon
  <2>4. 0 \in 0 .. Len(selected)
    BY <1>1
  <2> QED BY <2>3, <2>4
<1>3. ASSUME NEW n \in 1 .. Len(selected), n - 1 \in Typed PROVE n \in Typed
  <2>1. BlocksOf[selected[n]] \in Seq(Named)
    BY <1>1, BlocksOfIsOwned DEF Owned
  <2>2. BlocksUpTo[n - 1] \o BlocksOf[selected[n]] \in Seq(Named)
    BY <1>3, <2>1, ConcatProperties
  <2>3. BlocksUpTo[n] \in Seq(Named)
    BY <2>2, BlocksOfGroups
  <2> QED BY <1>1, <2>3
<1> HIDE DEF Typed
<1>4. 0 .. Len(selected) \subseteq Typed
  BY <1>1, <1>2, <1>3, IntervalInduction
<1> QED BY <1>4 DEF Typed

LEMMA BlocksStay ==
  ASSUME UNCHANGED <<mode, selected>>
  PROVE  BlocksUpTo' = BlocksUpTo
<1>1. BlocksOf' = BlocksOf
  BY DEF BlocksOf
<1> QED BY <1>1 DEF BlocksUpTo

LEMMA NamesOfSummaries ==
  ASSUME NEW u \in Seq(Summaries)
  PROVE  /\ Names(u) \in Seq(Named) /\ Len(Names(u)) = Len(u)
         /\ \A i \in 1 .. Len(u) : Names(u)[i] = NameOf(u[i])
<1>1. Len(u) \in Nat /\ DOMAIN u = 1 .. Len(u) /\ \A i \in 1 .. Len(u) : u[i] \in Summaries
  BY LenProperties, ElementOfSeq
<1>2. Names(u) = [i \in 1 .. Len(u) |-> NameOf(u[i])]
  BY <1>1 DEF Names
<1>3. \A i \in 1 .. Len(u) : NameOf(u[i]) \in Named
  BY <1>1 DEF Named, NameOf, Summaries
<1> QED BY <1>1, <1>2, <1>3

LEMMA NamesOfTwo ==
  ASSUME NEW u \in Seq(Summaries), NEW v \in Seq(Summaries)
  PROVE  \E x \in Seq(Named) :
           /\ x = Names(u) \o Names(v) /\ Len(x) = Len(u) + Len(v)
           /\ \A i \in 1 .. Len(u) : x[i] = NameOf(u[i])
           /\ \A i \in 1 .. Len(v) : x[Len(u) + i] = NameOf(v[i])
<1> DEFINE nu == Names(u)
           nv == Names(v)
<1>1. Len(u) \in Nat /\ Len(v) \in Nat
  BY LenProperties
<1>2. /\ nu \in Seq(Named) /\ Len(nu) = Len(u) /\ \A i \in 1 .. Len(u) : nu[i] = NameOf(u[i])
      /\ nv \in Seq(Named) /\ Len(nv) = Len(v) /\ \A i \in 1 .. Len(v) : nv[i] = NameOf(v[i])
  BY NamesOfSummaries
<1> HIDE DEF nu, nv
<1>3. nu \o nv \in Seq(Named)
  BY <1>2, ConcatProperties
<1>4. Len(nu \o nv) = Len(nu) + Len(nv)
  BY <1>2, ConcatProperties
<1>5. \A i \in 1 .. Len(nu) : (nu \o nv)[i] = nu[i]
  BY <1>2
<1>6. \A i \in 1 .. Len(nv) : (nu \o nv)[Len(nu) + i] = nv[i]
  BY <1>1, <1>2
<1>7. /\ nu \o nv = Names(u) \o Names(v) /\ Len(nu \o nv) = Len(u) + Len(v)
      /\ \A i \in 1 .. Len(u) : (nu \o nv)[i] = NameOf(u[i])
      /\ \A i \in 1 .. Len(v) : (nu \o nv)[Len(u) + i] = NameOf(v[i])
  BY <1>2, <1>4, <1>5, <1>6, Zenon DEF nu, nv
<1> QED BY <1>3, <1>7, Zenon

\* Appending the first of the queued summaries moves it from one list to the other.
LEMMA NamesMove ==
  ASSUME NEW s \in Seq(Summaries), NEW q \in Seq(Summaries), q # <<>>
  PROVE  Names(Append(s, Head(q))) \o Names(Tail(q)) = Names(s) \o Names(q)
<1> DEFINE a == Append(s, Head(q))
           t == Tail(q)
<1>1. /\ Len(s) \in Nat /\ Len(q) \in Nat /\ q[1] = Head(q) /\ Head(q) \in Summaries
      /\ \A i \in 1 .. Len(s) : s[i] \in Summaries
      /\ \A i \in 1 .. Len(q) : q[i] \in Summaries
  BY LenProperties, ElementOfSeq, HeadTailProperties
<1>2. Len(q) # 0
  BY <1>1, EmptySeq
<1>3. /\ a \in Seq(Summaries) /\ Len(a) = Len(s) + 1
      /\ \A i \in 1 .. Len(s) : a[i] = s[i]
      /\ a[Len(s) + 1] = q[1]
  BY <1>1, AppendProperties
<1>4. t \in Seq(Summaries) /\ Len(t) = Len(q) - 1 /\ \A i \in 1 .. Len(t) : t[i] = q[i + 1]
  BY HeadTailProperties
<1> HIDE DEF a, t
<1>5. a \in Seq(Summaries) /\ t \in Seq(Summaries)
  BY <1>3, <1>4
<1>6. PICK x \in Seq(Named) :
        /\ x = Names(a) \o Names(t) /\ Len(x) = Len(a) + Len(t)
        /\ \A i \in 1 .. Len(a) : x[i] = NameOf(a[i])
        /\ \A i \in 1 .. Len(t) : x[Len(a) + i] = NameOf(t[i])
  BY <1>5, NamesOfTwo, Zenon
<1>7. PICK y \in Seq(Named) :
        /\ y = Names(s) \o Names(q) /\ Len(y) = Len(s) + Len(q)
        /\ \A i \in 1 .. Len(s) : y[i] = NameOf(s[i])
        /\ \A i \in 1 .. Len(q) : y[Len(s) + i] = NameOf(q[i])
  BY NamesOfTwo, Zenon
<1>8. Len(a) + Len(t) = Len(s) + Len(q)
  BY <1>1, <1>3, <1>4
<1>9. ASSUME NEW i \in 1 .. Len(x) PROVE x[i] = y[i]
  <2>1. CASE i <= Len(s)
    <3>1. i \in 1 .. Len(s) /\ i \in 1 .. Len(a)
      BY <1>1, <1>3, <1>6, <2>1
    <3>2. x[i] = NameOf(a[i])
      BY <1>6, <3>1
    <3>3. a[i] = s[i]
      BY <1>3, <3>1
    <3>4. y[i] = NameOf(s[i])
      BY <1>7, <3>1
    <3> QED BY <3>2, <3>3, <3>4
  <2>2. CASE i = Len(s) + 1
    <3>1. i \in 1 .. Len(a) /\ 1 \in 1 .. Len(q)
      BY <1>1, <1>2, <1>3, <2>2
    <3>2. x[i] = NameOf(a[i])
      BY <1>6, <3>1
    <3>3. a[i] = q[1]
      BY <1>3, <2>2
    <3>4. y[i] = NameOf(q[1])
      BY <1>7, <2>2, <3>1
    <3> QED BY <3>2, <3>3, <3>4
  <2>3. CASE i > Len(s) + 1
    <3>0. Len(a) \in Nat /\ i \in Nat
      BY <1>1, <1>3
    <3>1. PICK j : j = i - Len(a)
      OBVIOUS
    <3>2. /\ j \in 1 .. Len(t) /\ j + 1 \in 1 .. Len(q)
          /\ i = Len(a) + j /\ i = Len(s) + (j + 1)
      BY <1>1, <1>3, <1>4, <1>6, <1>8, <2>3, <3>0, <3>1
    <3>3. x[i] = NameOf(t[j])
      BY <1>6, <3>2
    <3>4. t[j] = q[j + 1]
      BY <1>4, <3>2
    <3>5. y[i] = NameOf(q[j + 1])
      BY <1>7, <3>2
    <3> QED BY <3>3, <3>4, <3>5
  <2>4. i \in Int /\ Len(s) \in Int
    BY <1>1
  <2> QED BY <2>1, <2>2, <2>3, <2>4
<1>10. x = y
  BY <1>6, <1>7, <1>8, <1>9, SeqEqual
<1> QED BY <1>6, <1>7, <1>10 DEF a, t

LEMMA NamesOfQueue ==
  ASSUME NEW g \in Groups,
         NEW q, q = [i \in DOMAIN GroupBlocks[g] |-> Summary(g, GroupBlocks[g][i])]
  PROVE  Names(q) = Listed(g)
BY DEF Names, NameOf, Listed, Summary

LEMMA NamesOfNothing == Names(<<>>) = <<>>
BY DEF Names

LEMMA SelectionStays == [Next]_vars => UNCHANGED <<mode, selected>>
<1> SUFFICES ASSUME [Next]_vars PROVE UNCHANGED <<mode, selected>>
  OBVIOUS
<1>1. CASE Invoke
  BY <1>1 DEF Invoke, StartFresh, Resume, RefuseResume, Begin
<1>2. CASE Group
  BY <1>2 DEF Group, NextGroup, LoopDone, StopBeforeGroup, Enter, ExamineChunk, StopInsideChunk,
    ChunksDone, Break
<1>3. CASE Record
  BY <1>3 DEF Record, AppendBlock, BlocksDone, AppendDestination, AppendCompleted, StopRetained,
    WithinRetained, PeriodicPersist, SkipPersist, Return, Break
<1>4. CASE Interrupt \/ NumericalFailure \/ OtherFailure \/ Crash \/ UNCHANGED vars
  BY <1>4 DEF Interrupt, NumericalFailure, OtherFailure, Crash, vars
<1> QED BY <1>1, <1>2, <1>3, <1>4 DEF Next, Process

LEMMA UninterruptedParts ==
  ASSUME NEW w, NEW n
  PROVE  Uninterrupted(w, n) <=>
           w.completed = First(n) /\ Covered(w, n) /\ Names(w.blocks) = BlocksUpTo[n]
BY DEF Uninterrupted, First, Covered, ChunksOf, Names, NameOf
--------------------------------------------------------------------------------
(* The completed groups keep their summaries *)

LEMMA OwnStays ==
  ASSUME UNCHANGED <<mode, selected>>
  PROVE  BlocksOf' = BlocksOf /\ DestinationOf' = DestinationOf /\ BlocksUpTo' = BlocksUpTo
<1>1. BlocksOf' = BlocksOf
  BY DEF BlocksOf
<1>2. DestinationOf' = DestinationOf
  BY DEF DestinationOf, ChunksOf
<1> QED BY <1>1, <1>2, BlocksStay

\* The configuration is fixed, so a later state is judged as this one.
LEMMA GatheredLater ==
  ASSUME UNCHANGED <<mode, selected>>
  PROVE  /\ Gathered(work, Done)' <=> Gathered(work', Done')
         /\ Gathered(checkpoint.work, Len(checkpoint.work.completed))' <=>
              Gathered(checkpoint'.work, Len(checkpoint'.work.completed))
         /\ Gathered(outcome.work, Chosen)' <=> Gathered(outcome'.work, Chosen)
<1>1. BlocksOf' = BlocksOf /\ DestinationOf' = DestinationOf
  BY OwnStays
<1>2. Gathered(work, Done)' <=> Gathered(work', Done')
  BY <1>1 DEF Gathered, Covers, InOrder, Whole, Names, NameOf
<1>3. Gathered(checkpoint.work, Len(checkpoint.work.completed))' <=>
        Gathered(checkpoint'.work, Len(checkpoint'.work.completed))
  BY <1>1 DEF Gathered, Covers, InOrder, Whole, Names, NameOf
<1>4. Gathered(outcome.work, Chosen)' <=> Gathered(outcome'.work, Chosen)
  BY <1>1 DEF Gathered, Covers, InOrder, Whole, Names, NameOf, Chosen
<1> QED BY <1>2, <1>3, <1>4

LEMMA CoverInitHolds == Init => CoverInv
BY DEF Init, CoverInv, BeingRecorded, MemoryCovers, CheckpointCovers, OutcomeCovers

\* Nothing is appended; a cut is counted where something may be written.
LEMMA NothingAppended ==
  ASSUME OrderInv, CoverInv, pc # "down", UNCHANGED <<mode, selected, work>>,
         pc' \notin Recording, pc' = "chunk" => mode # "structural",
         cuts' \in Nat, cuts <= cuts',
         (pc' = "down" /\ checkpoint' = checkpoint) \/ Len(work.destination) <= Done + cuts',
         checkpoint' \in {checkpoint, Result}, outcome' \in {None, outcome, Result},
         outcome' = Result => pc = "finally"
  PROVE  CoverInv'
<1>1. /\ Result.work = work /\ Result.status = status
      /\ work.completed = First(Done) /\ Done \in 0 .. Chosen /\ Chosen \in Nat
      /\ cuts \in Nat /\ Len(work.destination) \in Nat
  BY ResultIsTyped, Selected, LenProperties DEF OrderInv, Visited, CoverInv, TypeOK, Work
<1>2. Done' = Done /\ Chosen' = Chosen /\ First(Chosen)' = First(Chosen) /\ Gathered(work, Done)
  BY DEF Done, Chosen, First, CoverInv, MemoryCovers
<1>3. BeingRecorded'
  BY DEF BeingRecorded, Recording
<1>4. MemoryCovers'
  <2> SUFFICES ASSUME pc' # "down" PROVE MemoryCovers'
    BY DEF MemoryCovers
  <2>1. Gathered(work, Done)'
    <3>1. Gathered(work', Done')
      BY <1>2
    <3> QED BY <3>1, GatheredLater
  <2>2. Ahead' = 0
    BY DEF Ahead, Recording
  <2>3. (Len(work.destination) <= Done + cuts + Ahead)'
    BY <1>1, <1>2, <2>2
  <2> QED BY <2>1, <2>3 DEF MemoryCovers
<1>5. CheckpointCovers'
  <2>1. CASE checkpoint' = checkpoint
    <3> SUFFICES ASSUME checkpoint # None PROVE CheckpointCovers'
      BY <2>1 DEF CheckpointCovers
    <3>1. checkpoint.work.completed \in Seq(Groups) /\ checkpoint.work.destination \in Seq(Destinations)
      BY DEF OrderInv, TypeOK, Results, Work
    <3>2. Len(checkpoint.work.completed) \in Nat /\ Len(checkpoint.work.destination) \in Nat
      BY <3>1, LenProperties
    <3> QED BY <1>1, <2>1, <3>2, GatheredLater DEF CoverInv, CheckpointCovers
  <2>2. CASE checkpoint' = Result /\ checkpoint' # checkpoint
    BY <1>1, <1>2, <2>2, GatheredLater DEF CheckpointCovers, Done
  <2> QED BY <2>1, <2>2
<1>6. OutcomeCovers'
  <2>1. CASE outcome' = outcome
    <3> SUFFICES ASSUME outcome # None PROVE OutcomeCovers'
      BY <2>1 DEF OutcomeCovers
    <3> QED BY DEF OrderInv, Reported
  <2>2. CASE outcome' = Result
    <3> SUFFICES ASSUME outcome'.status = "completed" PROVE OutcomeCovers'
      BY DEF OutcomeCovers
    <3>1. pc = "finally" /\ Done = Chosen
      BY <1>1, <2>2 DEF OrderInv, Reported
    <3>2. Len(work.destination) <= Done + cuts
      BY <1>1, <3>1 DEF CoverInv, MemoryCovers, Ahead
    <3>3. Len(work.destination) <= Chosen + cuts'
      BY <1>1, <3>1, <3>2
    <3> QED BY <1>1, <1>2, <2>2, <3>1, <3>3, GatheredLater DEF OutcomeCovers
  <2>3. CASE outcome' = None
    BY <2>3 DEF OutcomeCovers
  <2> QED BY <2>1, <2>2, <2>3
<1> QED BY <1>3, <1>4, <1>5, <1>6 DEF CoverInv

\* The same, in memory: what a step of the recording leaves alone.
LEMMA OnlyRecorded ==
  ASSUME OrderInv, CoverInv, UNCHANGED <<mode, selected, checkpoint, outcome, cuts>>,
         BeingRecorded', MemoryCovers'
  PROVE  CoverInv'
<1>1. First(Chosen)' = First(Chosen) /\ Chosen' = Chosen
  BY DEF First, Chosen
<1>2. CheckpointCovers' /\ OutcomeCovers'
  BY <1>1, GatheredLater DEF CoverInv, CheckpointCovers, OutcomeCovers
<1> QED BY <1>2 DEF CoverInv

LEMMA InvokeKeepsCover == OrderInv /\ CoverInv /\ Invoke => CoverInv'
<1> SUFFICES ASSUME OrderInv, CoverInv, Invoke PROVE CoverInv'
  OBVIOUS
<1>1. UNCHANGED <<mode, selected>> /\ Next
  BY SelectionStays DEF Next
<1>2. UNCHANGED <<checkpoint, cuts>> /\ outcome' = None
  BY DEF Invoke, StartFresh, Resume, RefuseResume, Begin
<1>3. CheckpointCovers' /\ OutcomeCovers' /\ cuts' \in Nat
  BY <1>1, <1>2, GatheredLater DEF CoverInv, CheckpointCovers, OutcomeCovers
<1>4. ASSUME NEW w, Begin(w), Gathered(w, Len(w.completed)),
             Len(w.destination) <= Len(w.completed) + cuts,
             Len(w.completed) \in Nat
      PROVE  CoverInv'
  <2>1. pc' = "loop" /\ work' = w /\ Done' = Len(w.completed)
    BY <1>4 DEF Begin, Done
  <2>2. BeingRecorded'
    BY <2>1 DEF BeingRecorded
  <2>3. MemoryCovers'
    <3>1. Gathered(work', Done')
      BY <1>4, <2>1
    <3>2. Gathered(work, Done)'
      BY <1>1, <3>1, GatheredLater
    <3>3. Ahead' = 0 /\ cuts' = cuts /\ cuts \in Nat
      BY <1>2, <2>1 DEF Ahead, CoverInv
    <3>4. (Len(work.destination) <= Done + cuts + Ahead)'
      BY <1>4, <2>1, <3>3
    <3> QED BY <3>2, <3>4 DEF MemoryCovers
  <2> QED BY <1>3, <2>2, <2>3 DEF CoverInv
<1>5. CASE StartFresh
  <2>1. Gathered(NoWork, 0) /\ Len(NoWork.destination) = 0 /\ Len(NoWork.completed) = 0
    BY NothingCovers, NamesOfNothing DEF Gathered, NoWork
  <2>2. 0 <= 0 + cuts
    BY DEF CoverInv
  <2> QED BY <1>4, <1>5, <2>1, <2>2 DEF StartFresh
<1>6. CASE Resume
  <2>1. Begin(checkpoint.work) /\ checkpoint # None
    BY <1>6 DEF Resume
  <2>2. Len(checkpoint.work.completed) \in Nat
    BY <2>1, LenProperties DEF OrderInv, TypeOK, Results, Work
  <2> QED BY <1>4, <2>1, <2>2 DEF CoverInv, CheckpointCovers
<1>7. CASE RefuseResume
  <2>1. pc' = "down"
    BY <1>7 DEF RefuseResume
  <2> QED BY <1>3, <2>1 DEF CoverInv, BeingRecorded, MemoryCovers
<1> QED BY <1>5, <1>6, <1>7 DEF Invoke

\* Where the process stands when a group is entered or recorded.
LEMMA AtGroup ==
  ASSUME OrderInv, CoverInv, pc \in InGroup
  PROVE  /\ selected \in Seq(Groups) /\ IsInjective(selected)
         /\ Done \in 0 .. Len(selected) - 1 /\ Len(selected) \in Nat
         /\ current = selected[Done + 1] /\ current \in Groups /\ outcome = None
         /\ Gathered(work, Done) /\ cuts \in Nat
         /\ work.destination \in Seq(Destinations) /\ work.blocks \in Seq(Summaries)
         /\ Names(work.blocks) \in Seq(Named) /\ Len(work.destination) \in Nat
         /\ queue \in Seq(Summaries) /\ work.completed \in Seq(Groups)
         /\ work = [completed |-> work.completed, destination |-> work.destination,
                    blocks |-> work.blocks]
         /\ Len(work.destination) <= Done + cuts + Ahead
<1>1. /\ selected \in Seq(Groups) /\ IsInjective(selected) /\ Chosen \in Nat /\ Done \in 0 .. Chosen
      /\ Done < Chosen /\ current = selected[Done + 1] /\ current \in Groups
  BY Selected, BudgetTypes DEF OrderInv, Visited
<1>2. pc # "down" /\ pc # "finally"
  BY DEF InGroup
<1>3. outcome = None /\ Gathered(work, Done) /\ cuts \in Nat /\ Len(work.destination) <= Done + cuts + Ahead
  BY <1>2 DEF OrderInv, Reported, CoverInv, MemoryCovers
<1>4. /\ work.destination \in Seq(Destinations) /\ work.blocks \in Seq(Summaries)
      /\ queue \in Seq(Summaries) /\ work.completed \in Seq(Groups)
      /\ work = [completed |-> work.completed, destination |-> work.destination,
                 blocks |-> work.blocks]
  BY DEF OrderInv, TypeOK, Work
<1>5. Names(work.blocks) \in Seq(Named)
  BY <1>4, NamesOfSummaries
<1>6. Len(work.destination) \in Nat
  BY <1>4, LenProperties
<1>7. Done \in 0 .. Len(selected) - 1 /\ Len(selected) \in Nat
  BY <1>1 DEF Chosen
<1> QED BY <1>1, <1>3, <1>4, <1>5, <1>6, <1>7

LEMMA NothingAhead ==
  ASSUME OrderInv, CoverInv, pc # "down"
  PROVE  /\ cuts \in Nat /\ Done \in Nat /\ Len(work.destination) \in Nat
         /\ Len(work.destination) <= Done + cuts + 1
         /\ pc # "completed" => Len(work.destination) <= Done + cuts
<1>1. cuts \in Nat /\ Done \in Nat /\ Len(work.destination) \in Nat
  BY Selected, LenProperties DEF OrderInv, TypeOK, Work, CoverInv
<1>2. Len(work.destination) <= Done + cuts + Ahead
  BY DEF CoverInv, MemoryCovers
<1> QED BY <1>1, <1>2 DEF Ahead

LEMMA GroupKeepsCover == OrderInv /\ CoverInv /\ Group => CoverInv'
<1> SUFFICES ASSUME OrderInv, CoverInv, Group PROVE CoverInv'
  OBVIOUS
<1>1. UNCHANGED <<mode, selected, cuts, checkpoint, outcome, work>> /\ pc # "down"
  BY DEF Group, NextGroup, LoopDone, StopBeforeGroup, Enter, ExamineChunk, StopInsideChunk,
    ChunksDone, Break, counters
<1>2. outcome' # Result \/ pc = "finally"
  <2>1. outcome = None \/ pc = "finally"
    BY <1>1 DEF OrderInv, Reported
  <2> QED BY <1>1, <2>1, ResultIsTyped
<1>3. CASE NextGroup \/ LoopDone \/ StopBeforeGroup \/ ExamineChunk \/ StopInsideChunk
  <2>1. pc # "completed" /\ pc' \notin Recording /\ (pc' = "chunk" => pc = "chunk")
    BY <1>3 DEF NextGroup, LoopDone, StopBeforeGroup, ExamineChunk, StopInsideChunk, Break, Recording
  <2>2. pc = "chunk" => mode # "structural"
    BY DEF CoverInv, BeingRecorded
  <2>3. cuts \in Nat /\ cuts <= cuts' /\ Len(work.destination) <= Done + cuts'
    BY <1>1, <2>1, NothingAhead
  <2> QED BY <1>1, <1>2, <2>1, <2>2, <2>3, NothingAppended
<1>4. CASE Enter
  <2>1. /\ UNCHANGED current /\ chunk' = 0 /\ pc = "group"
        /\ pc' = IF mode = "structural" THEN "destination" ELSE "chunk"
    BY <1>4 DEF Enter
  <2>2. CASE mode = "structural"
    <3>1. current \in Groups /\ Names(work.blocks) \in Seq(Named) /\ pc' = "destination"
      BY <2>1, <2>2, AtGroup DEF InGroup
    <3>2. BlocksOf[current] = <<>>
      BY <2>2, <3>1, BlocksOfIsOwned
    <3>3. Ends(Names(work.blocks), BlocksOf[current])
      BY <3>1, <3>2, LenProperties DEF Ends
    <3>4. Ends(Names(work.blocks), BlocksOf[current])'
      BY <1>1, <2>1, <3>3, OwnStays DEF Ends, Names, NameOf
    <3>5. (chunk = ChunksOf(current))'
      BY <1>1, <2>1, <2>2 DEF ChunksOf
    <3>6. BeingRecorded'
      BY <3>1, <3>4, <3>5 DEF BeingRecorded
    <3>7. MemoryCovers'
      BY <1>1, <2>1, <3>1, GatheredLater DEF CoverInv, MemoryCovers, Ahead, Done
    <3> QED BY <1>1, <3>6, <3>7, OnlyRecorded
  <2>3. CASE mode # "structural"
    <3>1. cuts \in Nat /\ cuts <= cuts' /\ Len(work.destination) <= Done + cuts'
      BY <1>1, <2>1, NothingAhead
    <3> QED BY <1>1, <1>2, <2>1, <2>3, <3>1, NothingAppended DEF Recording
  <2> QED BY <2>2, <2>3
<1>5. CASE ChunksDone
  <2>1. /\ UNCHANGED <<current, chunk>> /\ pc = "chunk" /\ pc' = "blocks"
        /\ chunk = NumChunks[current] /\ current \in Groups /\ mode # "structural"
        /\ Names(work.blocks) \in Seq(Named)
    BY <1>5, AtGroup DEF ChunksDone, InGroup, CoverInv, BeingRecorded
  <2>2. (chunk = ChunksOf(current))'
    BY <1>1, <2>1 DEF ChunksOf
  <2>3. Names(queue') = BlocksOf[current] /\ BlocksOf[current] \in Seq(Named)
    BY <1>5, <2>1, NamesOfQueue, BlocksOfIsOwned DEF ChunksDone, Owned
  <2>4. Ends(Names(work.blocks) \o Names(queue'), BlocksOf[current])
    BY <2>1, <2>3, ConcatEnds
  <2>5. Ends(Names(work.blocks) \o Names(queue), BlocksOf[current])'
    BY <1>1, <2>1, <2>4, OwnStays DEF Ends, Names, NameOf
  <2>6. queue' \in Seq(Summaries)
    <3>1. policy \in Policies
      BY <2>1, BudgetTypes
    <3> QED BY <1>5, <2>1, <3>1, QueueOfGroup DEF ChunksDone
  <2>7. ASSUME NEW i \in 1 .. Len(queue') PROVE NameOf(queue'[i]) \in Range(BlocksOf[current])
    <3>1. Names(queue')[i] = NameOf(queue'[i]) /\ i \in DOMAIN Names(queue')
      BY <2>6, NamesOfSummaries, LenProperties
    <3> QED BY <2>3, <3>1 DEF Range
  <2>8. BeingRecorded'
    BY <1>1, <2>1, <2>2, <2>5, <2>7, OwnStays DEF BeingRecorded, NameOf
  <2>9. MemoryCovers'
    BY <1>1, <2>1, GatheredLater DEF CoverInv, MemoryCovers, Ahead, Done
  <2> QED BY <1>1, <2>8, <2>9, OnlyRecorded
<1> QED BY <1>3, <1>4, <1>5 DEF Group

LEMMA NamesAppend ==
  ASSUME NEW u \in Seq(Summaries), NEW s \in Summaries
  PROVE  Names(Append(u, s)) = Append(Names(u), NameOf(s))
<1> DEFINE more == Append(u, s)
<1>1. /\ more \in Seq(Summaries) /\ Len(more) = Len(u) + 1 /\ Len(u) \in Nat
      /\ \A i \in 1 .. Len(u) : more[i] = u[i]
      /\ more[Len(u) + 1] = s
  BY LenProperties
<1>2. more = Append(u, s)
  OBVIOUS
<1> HIDE DEF more
<1>3. /\ Names(more) \in Seq(Named) /\ Len(Names(more)) = Len(u) + 1
      /\ \A i \in 1 .. Len(more) : Names(more)[i] = NameOf(more[i])
  BY <1>1, NamesOfSummaries
<1>4. /\ Names(u) \in Seq(Named) /\ Len(Names(u)) = Len(u)
      /\ \A i \in 1 .. Len(u) : Names(u)[i] = NameOf(u[i])
  BY NamesOfSummaries
<1>5. NameOf(s) \in Named
  BY DEF NameOf, Named, Summaries
<1> DEFINE names == Append(Names(u), NameOf(s))
<1>6. /\ names \in Seq(Named) /\ Len(names) = Len(u) + 1
      /\ \A i \in 1 .. Len(u) : names[i] = Names(u)[i]
      /\ names[Len(u) + 1] = NameOf(s)
  BY <1>1, <1>4, <1>5
<1> HIDE DEF names
<1>7. ASSUME NEW i \in 1 .. Len(names) PROVE Names(more)[i] = names[i]
  <2>1. i \in 1 .. Len(u) \/ i = Len(u) + 1
    BY <1>1, <1>6
  <2>2. Names(more)[i] = NameOf(more[i])
    BY <1>1, <1>3, <1>6
  <2> QED BY <1>1, <1>4, <1>6, <2>1, <2>2
<1>8. Names(more) = names
  BY <1>3, <1>6, <1>7, SeqEqual
<1> QED BY <1>2, <1>8 DEF names

LEMMA RecordKeepsCover == OrderInv /\ CoverInv /\ Record => CoverInv'
<1> SUFFICES ASSUME OrderInv, CoverInv, Record PROVE CoverInv'
  OBVIOUS
<1>1. UNCHANGED <<mode, selected, cuts>>
  BY DEF Record, AppendBlock, BlocksDone, AppendDestination, AppendCompleted, StopRetained,
    WithinRetained, PeriodicPersist, SkipPersist, Return, Break, counters
<1>2. CASE AppendBlock
  <2>1. /\ pc = "blocks" /\ pc' = "blocks" /\ UNCHANGED <<checkpoint, outcome, current, chunk>>
        /\ queue' = Tail(queue) /\ queue # <<>>
        /\ work'.completed = work.completed /\ work'.destination = work.destination
        /\ work'.blocks = Append(work.blocks, Head(queue))
    BY <1>2, AtGroup DEF AppendBlock, InGroup
  <2>2. /\ current = selected[Done + 1] /\ current \in Groups /\ selected \in Seq(Groups)
        /\ IsInjective(selected) /\ Done \in 0 .. Len(selected) - 1
        /\ queue \in Seq(Summaries) /\ work.blocks \in Seq(Summaries)
        /\ Gathered(work, Done) /\ Names(work.blocks) \in Seq(Named)
    BY <2>1, AtGroup DEF InGroup
  <2>3. /\ Ends(Names(work.blocks) \o Names(queue), BlocksOf[current])
        /\ \A i \in 1 .. Len(queue) : NameOf(queue[i]) \in Range(BlocksOf[current])
        /\ chunk = ChunksOf(current) /\ mode # "structural"
    BY <2>1 DEF CoverInv, BeingRecorded
  <2>4. /\ Head(queue) = queue[1] /\ Head(queue) \in Summaries /\ 1 \in 1 .. Len(queue)
        /\ Len(queue') = Len(queue) - 1 /\ Len(queue) \in Nat
        /\ \A i \in 1 .. Len(queue) - 1 : queue'[i] = queue[i + 1]
    <3>1. Len(queue) \in Nat /\ Len(queue) # 0
      BY <2>1, <2>2, EmptySeq, LenProperties
    <3>2. 1 \in 1 .. Len(queue) /\ queue[1] \in Summaries
      BY <2>2, <3>1, ElementOfSeq
    <3> QED BY <2>1, <2>2, <3>1, <3>2
  <2>5. Names(work'.blocks) = Append(Names(work.blocks), NameOf(Head(queue)))
    BY <2>1, <2>2, <2>4, NamesAppend
  <2>6. Covers(Names(work'.blocks), BlocksOf, Done)
    <3>1. NameOf(Head(queue)) \in Range(BlocksOf[selected[Done + 1]])
      BY <2>2, <2>3, <2>4
    <3>2. Covers(Names(work.blocks), BlocksOf, Done) /\ Owned(BlocksOf, Named)
      BY <2>2, BlocksOfIsOwned DEF Gathered
    <3> QED BY <2>2, <2>5, <3>1, <3>2, CoversAppend
  <2>7. Done' = Done /\ Gathered(work', Done')
    BY <2>1, <2>2, <2>6 DEF Gathered, Done
  <2>8. Ends(Names(work.blocks) \o Names(queue), BlocksOf[current])'
    <3>1. Names(work'.blocks) \o Names(queue') = Names(work.blocks) \o Names(queue)
      BY <2>1, <2>2, NamesMove
    <3>2. Ends(Names(work'.blocks) \o Names(queue'), BlocksOf[current])
      BY <2>3, <3>1
    <3> QED BY <1>1, <2>1, <3>2, OwnStays DEF Ends, Names, NameOf
  <2>9. ASSUME NEW i \in 1 .. Len(queue') PROVE NameOf(queue'[i]) \in Range(BlocksOf[current])
    <3>1. i + 1 \in 1 .. Len(queue) /\ queue'[i] = queue[i + 1]
      BY <2>4
    <3> QED BY <2>3, <3>1
  <2>10. BeingRecorded'
    <3>1. (chunk = ChunksOf(current))'
      BY <1>1, <2>1, <2>3 DEF ChunksOf
    <3> QED BY <1>1, <2>1, <2>3, <2>8, <2>9, <3>1, OwnStays DEF BeingRecorded, NameOf
  <2>11. MemoryCovers'
    <3>1. Gathered(work, Done)'
      BY <1>1, <2>7, GatheredLater
    <3>2. (Len(work.destination) <= Done + cuts + Ahead)'
      BY <1>1, <2>1, <2>7 DEF CoverInv, MemoryCovers, Ahead
    <3> QED BY <3>1, <3>2 DEF MemoryCovers
  <2> QED BY <1>1, <2>1, <2>10, <2>11, OnlyRecorded
<1>3. CASE BlocksDone
  <2>1. /\ pc = "blocks" /\ pc' = "destination" /\ queue = <<>>
        /\ UNCHANGED <<work, checkpoint, outcome, current, chunk>>
    BY <1>3 DEF BlocksDone
  <2>2. Ends(Names(work.blocks), BlocksOf[current])
    <3>1. Names(work.blocks) \in Seq(Named) /\ Names(queue) = <<>>
      BY <2>1, AtGroup, NamesOfNothing DEF InGroup
    <3>2. Names(work.blocks) \o Names(queue) = Names(work.blocks)
      BY <3>1, ConcatEmptySeq
    <3> QED BY <2>1, <3>2 DEF CoverInv, BeingRecorded
  <2>3. Ends(Names(work.blocks), BlocksOf[current])'
    BY <1>1, <2>1, <2>2, OwnStays DEF Ends, Names, NameOf
  <2>4. (chunk = ChunksOf(current))'
    BY <1>1, <2>1 DEF CoverInv, BeingRecorded, ChunksOf
  <2>5. BeingRecorded'
    BY <2>1, <2>3, <2>4 DEF BeingRecorded
  <2>6. MemoryCovers'
    BY <1>1, <2>1, GatheredLater DEF CoverInv, MemoryCovers, Ahead, Done
  <2> QED BY <1>1, <2>1, <2>5, <2>6, OnlyRecorded
<1>4. CASE AppendDestination
  <2> DEFINE entry == [group |-> current, chunks |-> chunk]
  <2>1. /\ pc = "destination" /\ pc' = "completed" /\ UNCHANGED <<checkpoint, outcome, current>>
        /\ work'.completed = work.completed /\ work'.blocks = work.blocks
        /\ work'.destination = Append(work.destination, entry)
    BY <1>4, AtGroup DEF AppendDestination, InGroup
  <2>2. /\ current = selected[Done + 1] /\ current \in Groups /\ selected \in Seq(Groups)
        /\ IsInjective(selected) /\ Done \in 0 .. Len(selected) - 1
        /\ work.destination \in Seq(Destinations) /\ Gathered(work, Done)
        /\ Len(work.destination) <= Done + cuts + 0 /\ Len(work.destination) \in Nat
        /\ cuts \in Nat
    BY <2>1, AtGroup DEF InGroup, Ahead
  <2>3. chunk = ChunksOf(current) /\ Ends(Names(work.blocks), BlocksOf[current])
    BY <2>1 DEF CoverInv, BeingRecorded
  <2>4. DestinationOf[current] = <<entry>> /\ entry \in Range(DestinationOf[selected[Done + 1]])
        /\ Owned(DestinationOf, Destinations)
    <3>1. DestinationOf[current] = <<entry>> /\ Owned(DestinationOf, Destinations)
      BY <2>2, <2>3, DestinationOfIsOwned
    <3>2. 1 \in DOMAIN DestinationOf[current] /\ DestinationOf[current][1] = entry
      BY <3>1
    <3>3. entry \in Range(DestinationOf[current])
      BY <3>2 DEF Range
    <3> QED BY <2>2, <3>1, <3>3
  <2> HIDE DEF entry
  <2>5. /\ Append(work.destination, entry) \in Seq(Destinations)
        /\ Covers(Append(work.destination, entry), DestinationOf, Done)
    <3>1. Covers(work.destination, DestinationOf, Done)
      BY <2>2 DEF Gathered
    <3> QED BY <2>2, <2>4, <3>1, CoversAppend
  <2>6. Ends(Append(work.destination, entry), DestinationOf[current])
    <3>1. Append(work.destination, entry) = work.destination \o <<entry>>
      BY <2>2, <2>4
    <3>2. DestinationOf[current] \in Seq(Destinations)
      BY <2>2, <2>4 DEF Owned
    <3> QED BY <2>2, <2>4, <3>1, <3>2, ConcatEnds
  <2>7. Done' = Done /\ Gathered(work', Done')
    BY <2>1, <2>2, <2>5 DEF Gathered, Done
  <2>8. BeingRecorded'
    <3>1. Ends(Names(work.blocks), BlocksOf[current])'
      BY <1>1, <2>1, <2>3, OwnStays DEF Ends, Names, NameOf
    <3>2. Ends(work.destination, DestinationOf[current])'
      BY <1>1, <2>1, <2>6, OwnStays DEF Ends
    <3> QED BY <2>1, <3>1, <3>2 DEF BeingRecorded
  <2>9. MemoryCovers'
    <3>1. Gathered(work, Done)'
      BY <1>1, <2>7, GatheredLater
    <3>2. Len(work'.destination) = Len(work.destination) + 1
      BY <2>1, <2>2, <2>5
    <3>3. (Len(work.destination) <= Done + cuts + Ahead)'
      BY <1>1, <2>1, <2>2, <2>7, <3>2 DEF Ahead
    <3> QED BY <3>1, <3>3 DEF MemoryCovers
  <2> QED BY <1>1, <2>1, <2>8, <2>9, OnlyRecorded
<1>5. CASE AppendCompleted
  <2>1. /\ pc = "completed" /\ pc' = "retained" /\ UNCHANGED <<checkpoint, outcome>>
        /\ work'.completed = Append(work.completed, current)
        /\ work'.blocks = work.blocks /\ work'.destination = work.destination
    BY <1>5, AtGroup DEF AppendCompleted, InGroup
  <2>2. /\ current = selected[Done + 1] /\ selected \in Seq(Groups)
        /\ Done \in 0 .. Len(selected) - 1 /\ work.completed \in Seq(Groups) /\ current \in Groups
        /\ work.destination \in Seq(Destinations) /\ Names(work.blocks) \in Seq(Named)
        /\ Gathered(work, Done) /\ Len(work.destination) <= Done + cuts + 1 /\ cuts \in Nat
        /\ Len(work.destination) \in Nat /\ Len(selected) \in Nat
    BY <2>1, AtGroup DEF InGroup, Ahead
  <2>3. Done' = Done + 1
    BY <2>1, <2>2 DEF Done
  <2>4. Covers(work.destination, DestinationOf, Done + 1)
    <3>1. Ends(work.destination, DestinationOf[selected[Done + 1]])
      BY <2>1, <2>2 DEF CoverInv, BeingRecorded
    <3>2. Covers(work.destination, DestinationOf, Done) /\ Owned(DestinationOf, Destinations)
      BY <2>2, DestinationOfIsOwned DEF Gathered
    <3> QED BY <2>2, <3>1, <3>2, CoversNext
  <2>5. Covers(Names(work.blocks), BlocksOf, Done + 1)
    <3>1. Ends(Names(work.blocks), BlocksOf[selected[Done + 1]])
      BY <2>1, <2>2 DEF CoverInv, BeingRecorded
    <3>2. Covers(Names(work.blocks), BlocksOf, Done) /\ Owned(BlocksOf, Named)
      BY <2>2, BlocksOfIsOwned DEF Gathered
    <3> QED BY <2>2, <3>1, <3>2, CoversNext
  <2>6. Gathered(work', Done')
    BY <2>1, <2>3, <2>4, <2>5 DEF Gathered
  <2>7. MemoryCovers'
    <3>1. Gathered(work, Done)'
      BY <1>1, <2>6, GatheredLater
    <3>2. (Len(work.destination) <= Done + cuts + Ahead)'
      BY <1>1, <2>1, <2>2, <2>3 DEF Ahead
    <3> QED BY <3>1, <3>2 DEF MemoryCovers
  <2>8. BeingRecorded'
    BY <2>1 DEF BeingRecorded
  <2> QED BY <1>1, <2>1, <2>7, <2>8, OnlyRecorded
<1>6. CASE StopRetained \/ WithinRetained \/ PeriodicPersist \/ SkipPersist \/ Return
  <2>1. /\ pc \notin Recording \cup {"down"} /\ pc' \notin Recording \cup {"chunk"}
        /\ checkpoint' \in {checkpoint, Result} /\ UNCHANGED <<mode, selected, work, cuts>>
        /\ \/ outcome' = outcome
           \/ pc = "finally" /\ outcome' = Result
    BY <1>1, <1>6 DEF StopRetained, WithinRetained, PeriodicPersist, SkipPersist, Return, Break, Recording
  <2>2. pc # "completed" /\ pc # "down"
    BY <2>1 DEF Recording
  <2>3. cuts' \in Nat /\ cuts <= cuts' /\ Len(work.destination) <= Done + cuts'
    BY <2>1, <2>2, NothingAhead
  <2>4. outcome' = Result => pc = "finally"
    <3>1. outcome = None \/ pc = "finally"
      BY <2>2 DEF OrderInv, Reported
    <3> QED BY <2>1, <2>2, <3>1, ResultIsTyped
  <2> QED BY <2>1, <2>2, <2>3, <2>4, NothingAppended
<1> QED BY <1>2, <1>3, <1>4, <1>5, <1>6 DEF Record

LEMMA EnvironmentKeepsCover ==
  OrderInv /\ CoverInv /\ (Interrupt \/ NumericalFailure \/ OtherFailure \/ Crash) => CoverInv'
<1> SUFFICES ASSUME OrderInv, CoverInv, Interrupt \/ NumericalFailure \/ OtherFailure \/ Crash
             PROVE  CoverInv'
  OBVIOUS
<1>1. /\ UNCHANGED <<mode, selected, work>> /\ pc # "down" /\ pc' \in {"finally", "down"}
      /\ checkpoint' \in {checkpoint, Result} /\ outcome' \in {outcome, None}
  BY DEF Interrupt, NumericalFailure, OtherFailure, Crash
<1>2. \/ pc # "completed" /\ (cuts' = cuts \/ cuts' = cuts + 1)
      \/ cuts' = cuts + 1
      \/ cuts' = cuts /\ pc' = "down" /\ checkpoint' = checkpoint
  <2>1. CASE Interrupt
    BY <2>1 DEF Interrupt, Cut, Recording, CoverInv
  <2>2. CASE OtherFailure
    BY <2>2 DEF OtherFailure, Cut, Recording, CoverInv
  <2>3. CASE NumericalFailure
    BY <2>3 DEF NumericalFailure
  <2>4. CASE Crash
    BY <2>4 DEF Crash
  <2> QED BY <2>1, <2>2, <2>3, <2>4
<1>3. /\ cuts' \in Nat /\ cuts <= cuts'
      /\ (pc' = "down" /\ checkpoint' = checkpoint) \/ Len(work.destination) <= Done + cuts'
  BY <1>1, <1>2, NothingAhead
<1>4. outcome' = Result => pc = "finally"
  <2>1. outcome = None \/ pc = "finally"
    BY <1>1 DEF OrderInv, Reported
  <2> QED BY <1>1, <2>1, ResultIsTyped
<1> QED BY <1>1, <1>3, <1>4, NothingAppended DEF Recording

\* CoverInv is inductive, given OrderInv.
LEMMA CoverInvHolds == Spec => []CoverInv
<1>1. OrderInv /\ CoverInv /\ [Next]_vars => CoverInv'
  <2>1. OrderInv /\ CoverInv /\ UNCHANGED vars => CoverInv'
    <3> SUFFICES ASSUME OrderInv, CoverInv, UNCHANGED vars PROVE CoverInv'
      OBVIOUS
    <3>1. UNCHANGED <<mode, selected, pc, work, current, chunk, queue, checkpoint, outcome, cuts>>
      BY DEF vars, memory, counters
    <3>2. BeingRecorded'
      BY <3>1, OwnStays DEF CoverInv, BeingRecorded, ChunksOf, Ends, Names, NameOf
    <3>3. MemoryCovers'
      BY <3>1, GatheredLater DEF CoverInv, MemoryCovers, Ahead, Done
    <3> QED BY <3>1, <3>2, <3>3, OnlyRecorded
  <2> QED BY <2>1, InvokeKeepsCover, GroupKeepsCover, RecordKeepsCover, EnvironmentKeepsCover
      DEF Next, Process
<1> QED BY <1>1, CoverInitHolds, OrderInvHolds, PTL DEF Spec
--------------------------------------------------------------------------------
(* Without a cut the work is exact *)

LEMMA ExactInitHolds == Init => ExactInv
BY DEF Init, ExactInv, Recording, InterruptResumeExact

LEMMA InvokeKeepsExact == OrderInv /\ ExactInv /\ Invoke => ExactInv'
<1> SUFFICES ASSUME OrderInv, ExactInv, Invoke PROVE ExactInv'
  OBVIOUS
<1>1. UNCHANGED <<mode, selected>> /\ Next
  BY SelectionStays DEF Next
<1>2. BlocksUpTo' = BlocksUpTo
  BY <1>1, BlocksStay
<1>3. ASSUME NEW w, Begin(w), Uninterrupted(w, Len(w.completed))
      PROVE  ExactInv'
  <2>1. /\ pc' = "loop" /\ work' = w /\ checkpoint' = checkpoint /\ outcome' = None
    BY <1>3 DEF Begin
  <2>2. Uninterrupted(work, Done)'
    BY <1>1, <1>2, <1>3, <2>1 DEF Uninterrupted, ChunksOf, Names, NameOf, Done
  <2>3. checkpoint' # None => Uninterrupted(checkpoint.work, Len(checkpoint.work.completed))'
    BY <1>1, <1>2, <2>1 DEF ExactInv, Uninterrupted, ChunksOf, Names, NameOf
  <2> QED BY <2>1, <2>2, <2>3 DEF ExactInv, Recording, InterruptResumeExact
<1>4. CASE StartFresh
  <2>1. Len(<<>>) = 0 /\ BlocksUpTo[0] = <<>> /\ First(0) = <<>>
    BY Selected, BlocksOfGroups, SubSeqEmpty DEF First
  <2>2. NoWork.completed = First(0) /\ Covered(NoWork, 0) /\ Names(NoWork.blocks) = BlocksUpTo[0]
    BY <2>1, NamesOfNothing DEF NoWork, Covered
  <2>3. Uninterrupted(NoWork, Len(NoWork.completed))
    BY <2>1, <2>2, UninterruptedParts DEF NoWork
  <2> QED BY <1>3, <1>4, <2>3 DEF StartFresh
<1>5. CASE Resume
  BY <1>3, <1>5 DEF Resume, ExactInv
<1>6. CASE RefuseResume
  <2>1. pc' = "down" /\ checkpoint' = checkpoint /\ outcome' = None
    BY <1>6 DEF RefuseResume
  <2>2. checkpoint' # None => Uninterrupted(checkpoint.work, Len(checkpoint.work.completed))'
    BY <1>1, <1>2, <2>1 DEF ExactInv, Uninterrupted, ChunksOf, Names, NameOf
  <2> QED BY <2>1, <2>2 DEF ExactInv, Recording, InterruptResumeExact
<1> QED BY <1>4, <1>5, <1>6 DEF Invoke

\* The loop body goes on, or is left, between two groups.
LEMMA BetweenGroups ==
  ASSUME OrderInv, ExactInv, pc \notin Recording \cup {"down"}, pc' \notin Recording,
         checkpoint' \in {checkpoint, Result}, outcome' # None => outcome' = Result,
         pc' # "down" => outcome' = None,
         pc' = "down" /\ outcome' # None => pc = "finally",
         UNCHANGED <<mode, selected, work>>
  PROVE  ExactInv'
<1>1. Uninterrupted(work, Done)
  BY DEF ExactInv
<1>2. BlocksUpTo' = BlocksUpTo
  BY BlocksStay
<1>3. Uninterrupted(work, Done)'
  BY <1>1, <1>2 DEF Uninterrupted, ChunksOf, Names, NameOf, Done
<1>4. checkpoint' # None => Uninterrupted(checkpoint.work, Len(checkpoint.work.completed))'
  <2>1. CASE checkpoint' = checkpoint
    BY <1>2, <2>1 DEF ExactInv, Uninterrupted, ChunksOf, Names, NameOf
  <2>2. CASE checkpoint' = Result
    <3>1. checkpoint'.work = work
      BY <2>2 DEF Result
    <3> QED BY <1>1, <1>2, <3>1 DEF Uninterrupted, ChunksOf, Names, NameOf, Done
  <2> QED BY <2>1, <2>2
<1>5. InterruptResumeExact'
  <2> SUFFICES ASSUME outcome' # None, outcome'.status = "completed"
               PROVE  Uninterrupted(outcome.work, Len(selected))'
    BY DEF InterruptResumeExact
  <2>1. outcome' = Result /\ pc = "finally" /\ outcome'.work = work
    BY DEF Result
  <2>2. status = "completed"
    BY <2>1 DEF Result
  <2>3. Done = Len(selected)
    BY <2>1, <2>2 DEF OrderInv, Reported, Chosen
  <2> QED BY <1>1, <1>2, <2>1, <2>3 DEF Uninterrupted, ChunksOf, Names, NameOf
<1> QED BY <1>3, <1>4, <1>5 DEF ExactInv, Recording

LEMMA GroupKeepsExact == OrderInv /\ CoverInv /\ ExactInv /\ Group => ExactInv'
<1> SUFFICES ASSUME OrderInv, CoverInv, ExactInv, Group PROVE ExactInv'
  OBVIOUS
<1>1. UNCHANGED <<mode, selected>> /\ BlocksUpTo' = BlocksUpTo
  BY SelectionStays, BlocksStay DEF Next, Process
<1>2. CASE NextGroup \/ LoopDone \/ StopBeforeGroup \/ ExamineChunk \/ StopInsideChunk
  <2>1. /\ pc \notin Recording \cup {"down"} /\ pc' \notin Recording \cup {"down"}
        /\ UNCHANGED <<mode, selected, work, checkpoint, outcome>>
    BY <1>2 DEF NextGroup, LoopDone, StopBeforeGroup, ExamineChunk, StopInsideChunk, Break, Recording
  <2>2. outcome = None
    BY <2>1 DEF OrderInv, Reported
  <2> QED BY <2>1, <2>2, BetweenGroups
<1>3. CASE Enter
  <2>1. /\ UNCHANGED <<work, checkpoint, outcome, current>> /\ chunk' = 0 /\ pc = "group"
        /\ pc' = IF mode = "structural" THEN "destination" ELSE "chunk"
    BY <1>3 DEF Enter
  <2>2. CASE mode = "structural"
    <3>1. Uninterrupted(work, Done) /\ outcome' = None
      BY <2>1 DEF ExactInv, Recording, OrderInv, Reported
    <3>2. Covered(work, Done)'
      BY <1>1, <2>1, <3>1 DEF Covered, Uninterrupted, ChunksOf, Done
    <3>3. (Names(work.blocks) = BlocksUpTo[Done + 1])'
      <4>1. /\ selected \in Seq(Groups) /\ Done \in 0 .. Len(selected) - 1 /\ Len(selected) \in Nat
            /\ current = selected[Done + 1] /\ current \in Groups /\ Names(work.blocks) \in Seq(Named)
        BY <2>1, AtGroup DEF InGroup
      <4>2. BlocksOf[current] = <<>> /\ Names(work.blocks) = BlocksUpTo[Done]
        BY <2>2, <3>1, <4>1, BlocksOfIsOwned, UninterruptedParts
      <4>3. BlocksUpTo[Done + 1] = BlocksUpTo[Done] \o BlocksOf[current]
        <5>1. Done + 1 \in 1 .. Len(selected) /\ (Done + 1) - 1 = Done
          BY <4>1
        <5> QED BY <4>1, <5>1, BlocksOfGroups
      <4>4. Names(work.blocks) \o <<>> = Names(work.blocks)
        BY <4>1, ConcatEmptySeq
      <4>5. Names(work.blocks) = BlocksUpTo[Done + 1]
        BY <4>2, <4>3, <4>4
      <4> QED BY <1>1, <2>1, <4>5 DEF Names, NameOf, Done
    <3>4. checkpoint' # None => Uninterrupted(checkpoint.work, Len(checkpoint.work.completed))'
      BY <1>1, <2>1 DEF ExactInv, Uninterrupted, ChunksOf, Names, NameOf
    <3> QED BY <2>1, <2>2, <3>1, <3>2, <3>3, <3>4
        DEF ExactInv, Recording, InterruptResumeExact
  <2>3. CASE mode # "structural"
    <3>1. outcome' = None /\ pc' = "chunk"
      BY <2>1, <2>3 DEF OrderInv, Reported
    <3> QED BY <1>1, <2>1, <2>3, <3>1, BetweenGroups DEF Recording
  <2> QED BY <2>2, <2>3
<1>4. CASE ChunksDone
  <2>1. /\ UNCHANGED <<work, checkpoint, outcome, current, chunk>> /\ pc = "chunk" /\ pc' = "blocks"
        /\ chunk = NumChunks[current]
    BY <1>4 DEF ChunksDone
  <2>2. /\ selected \in Seq(Groups) /\ Done \in 0 .. Len(selected) - 1 /\ Len(selected) \in Nat
        /\ current = selected[Done + 1] /\ current \in Groups
    BY <2>1, AtGroup DEF InGroup
  <2>3. Uninterrupted(work, Done) /\ outcome' = None /\ mode # "structural"
    BY <2>1 DEF ExactInv, Recording, OrderInv, Reported, CoverInv, BeingRecorded
  <2>4. Covered(work, Done)'
    BY <1>1, <2>1, <2>3 DEF Covered, Uninterrupted, ChunksOf, Done
  <2>5. (Names(work.blocks) \o Names(queue) = BlocksUpTo[Done + 1])'
    <3>1. Names(queue') = BlocksOf[current]
      BY <1>4, <2>2, <2>3, NamesOfQueue, BlocksOfIsOwned DEF ChunksDone
    <3>2. Names(work.blocks) = BlocksUpTo[Done]
      BY <2>3, UninterruptedParts
    <3>3. Done + 1 \in 1 .. Len(selected) /\ (Done + 1) - 1 = Done
      BY <2>2
    <3>4. BlocksUpTo[Done + 1] = BlocksUpTo[Done] \o BlocksOf[current]
      BY <2>2, <3>3, BlocksOfGroups
    <3>5. Names(work.blocks) \o Names(queue') = BlocksUpTo[Done + 1]
      BY <3>1, <3>2, <3>4
    <3> QED BY <1>1, <2>1, <3>5 DEF Names, NameOf, Done
  <2>6. checkpoint' # None => Uninterrupted(checkpoint.work, Len(checkpoint.work.completed))'
    BY <1>1, <2>1 DEF ExactInv, Uninterrupted, ChunksOf, Names, NameOf
  <2> QED BY <2>1, <2>3, <2>4, <2>5, <2>6 DEF ExactInv, Recording, InterruptResumeExact
<1> QED BY <1>2, <1>3, <1>4 DEF Group

LEMMA RecordKeepsExact == OrderInv /\ CoverInv /\ ExactInv /\ Record => ExactInv'
<1> SUFFICES ASSUME OrderInv, CoverInv, ExactInv, Record PROVE ExactInv'
  OBVIOUS
<1>1. UNCHANGED <<mode, selected>> /\ BlocksUpTo' = BlocksUpTo
  BY SelectionStays, BlocksStay DEF Next, Process
<1>2. /\ selected \in Seq(Groups) /\ Chosen \in Nat /\ Done \in 0 .. Chosen
      /\ work.destination \in Seq(Destinations) /\ work.blocks \in Seq(Summaries)
      /\ work.completed \in Seq(Groups) /\ queue \in Seq(Summaries)
      /\ work = [completed |-> work.completed, destination |-> work.destination,
                 blocks |-> work.blocks]
  BY Selected DEF OrderInv, TypeOK, Work
<1>3. checkpoint' = checkpoint =>
        (checkpoint' # None => Uninterrupted(checkpoint.work, Len(checkpoint.work.completed))')
  BY <1>1 DEF ExactInv, Uninterrupted, ChunksOf, Names, NameOf
<1>4. pc \in Recording => Done < Chosen /\ current = selected[Done + 1] /\ outcome = None
  BY DEF OrderInv, Visited, Reported, InGroup, Recording
<1>5. CASE AppendBlock
  <2>1. /\ pc = "blocks" /\ pc' = "blocks" /\ UNCHANGED <<checkpoint, outcome, current, chunk>>
        /\ work'.completed = work.completed /\ work'.destination = work.destination
        /\ work'.blocks = Append(work.blocks, Head(queue)) /\ queue' = Tail(queue) /\ queue # <<>>
    BY <1>2, <1>5 DEF AppendBlock
  <2>2. Covered(work, Done)'
    BY <1>1, <2>1 DEF ExactInv, Covered, ChunksOf, Done
  <2>3. (Names(work.blocks) \o Names(queue) = BlocksUpTo[Done + 1])'
    <3>1. Names(work'.blocks) \o Names(queue') = Names(work.blocks) \o Names(queue)
      BY <1>2, <2>1, NamesMove
    <3>2. Names(work.blocks) \o Names(queue) = BlocksUpTo[Done + 1]
      BY <2>1 DEF ExactInv
    <3>3. Done' = Done
      BY <2>1 DEF Done
    <3> QED BY <1>1, <3>1, <3>2, <3>3 DEF Names, NameOf
  <2> QED BY <1>3, <1>4, <2>1, <2>2, <2>3 DEF ExactInv, Recording, InterruptResumeExact
<1>6. CASE BlocksDone
  <2>1. /\ pc = "blocks" /\ pc' = "destination" /\ queue = <<>>
        /\ UNCHANGED <<work, checkpoint, outcome, current, chunk>>
    BY <1>6 DEF BlocksDone
  <2>2. Covered(work, Done)'
    BY <1>1, <2>1 DEF ExactInv, Covered, ChunksOf, Done
  <2>3. (Names(work.blocks) = BlocksUpTo[Done + 1])'
    <3>1. Names(work.blocks) \in Seq(Named) /\ Names(queue) = <<>>
      BY <1>2, <2>1, NamesOfSummaries, NamesOfNothing
    <3>2. Names(work.blocks) \o Names(queue) = BlocksUpTo[Done + 1]
      BY <2>1 DEF ExactInv
    <3>3. Names(work.blocks) = BlocksUpTo[Done + 1]
      BY <3>1, <3>2, ConcatEmptySeq
    <3> QED BY <1>1, <2>1, <3>3 DEF Names, NameOf, Done
  <2> QED BY <1>3, <1>4, <2>1, <2>2, <2>3 DEF ExactInv, Recording, InterruptResumeExact
<1>7. CASE AppendDestination
  <2>1. /\ pc = "destination" /\ pc' = "completed" /\ UNCHANGED <<checkpoint, outcome>>
        /\ work'.completed = work.completed /\ work'.blocks = work.blocks
        /\ work'.destination = Append(work.destination, [group |-> current, chunks |-> chunk])
    BY <1>2, <1>7 DEF AppendDestination
  <2>2. Covered(work, Done + 1)'
    <3> DEFINE Row(i) == [group |-> selected[i], chunks |-> ChunksOf(selected[i])]
    <3>1. work.destination = [i \in 1 .. Done |-> Row(i)]
      BY <2>1 DEF ExactInv, Covered
    <3>2. [group |-> current, chunks |-> chunk] = Row(Done + 1)
      BY <1>4, <2>1 DEF CoverInv, BeingRecorded, Recording
    <3>3. Len(work.destination) = Done
      BY <1>2, <3>1, LenProperties
    <3> HIDE DEF Row
    <3>4. Append(work.destination, Row(Done + 1)) = [i \in 1 .. Done + 1 |-> Row(i)]
      <4> DEFINE longer == Append(work.destination, Row(Done + 1))
      <4>1. longer = [i \in 1 .. Done + 1 |-> IF i <= Done THEN work.destination[i] ELSE Row(Done + 1)]
        BY <1>2, <3>3
      <4> HIDE DEF longer
      <4>2. \A i \in 1 .. Done + 1 :
              (IF i <= Done THEN work.destination[i] ELSE Row(Done + 1)) = Row(i)
        BY <1>2, <3>1
      <4>3. longer = [i \in 1 .. Done + 1 |-> Row(i)]
        BY <4>1, <4>2
      <4> QED BY <4>3 DEF longer
    <3>5. work'.destination = [i \in 1 .. Done + 1 |-> Row(i)]
      BY <2>1, <3>2, <3>4
    <3>6. Done' = Done
      BY <2>1 DEF Done
    <3> QED BY <1>1, <3>5, <3>6 DEF Covered, ChunksOf, Row
  <2>3. (Names(work.blocks) = BlocksUpTo[Done + 1])'
    BY <1>1, <2>1 DEF ExactInv, Names, NameOf, Done
  <2> QED BY <1>3, <1>4, <2>1, <2>2, <2>3 DEF ExactInv, Recording, InterruptResumeExact
<1>8. CASE AppendCompleted
  <2>1. /\ pc = "completed" /\ pc' = "retained" /\ UNCHANGED <<checkpoint, outcome>>
        /\ work'.completed = Append(work.completed, current)
        /\ work'.blocks = work.blocks /\ work'.destination = work.destination
    BY <1>2, <1>8 DEF AppendCompleted
  <2>2. /\ work.completed = First(Done) /\ current = selected[Done + 1]
        /\ Done \in 0 .. Len(selected) - 1
    BY <1>2, <1>4, <2>1 DEF OrderInv, Visited, Recording, Chosen
  <2>3. work'.completed = First(Done + 1)
    BY <1>2, <2>1, <2>2, PrefixStep DEF First
  <2>4. Done' = Done + 1
    BY <1>2, <2>1 DEF Done
  <2>5. Covered(work, Done + 1) /\ Names(work.blocks) = BlocksUpTo[Done + 1]
    BY <2>1 DEF ExactInv
  <2>6. Uninterrupted(work, Done)'
    BY <1>1, <2>1, <2>3, <2>4, <2>5 DEF Uninterrupted, First, Covered, ChunksOf, Names, NameOf
  <2> QED BY <1>3, <1>4, <2>1, <2>6 DEF ExactInv, Recording, InterruptResumeExact
<1>9. CASE StopRetained \/ WithinRetained \/ PeriodicPersist \/ SkipPersist \/ Return
  <2>1. /\ pc \notin Recording \cup {"down"} /\ pc' \notin Recording \cup {"chunk"}
        /\ checkpoint' \in {checkpoint, Result} /\ UNCHANGED <<mode, selected, work>>
        /\ \/ pc' # "down" /\ pc # "finally" /\ outcome' = outcome
           \/ pc' = "down" /\ pc = "finally" /\ outcome' = Result
    BY <1>9 DEF StopRetained, WithinRetained, PeriodicPersist, SkipPersist, Return, Break, Recording
  <2>2. outcome = None
    BY <2>1 DEF OrderInv, Reported
  <2> QED BY <2>1, <2>2, BetweenGroups
<1> QED BY <1>5, <1>6, <1>7, <1>8, <1>9 DEF Record

\* A group recorded in part is what breaks the invariant.
LEMMA EnvironmentKeepsExact ==
  OrderInv /\ CoverInv /\ ExactInv /\ cuts' = cuts /\ (Interrupt \/ NumericalFailure \/ OtherFailure \/ Crash)
    => ExactInv'
<1> SUFFICES ASSUME OrderInv, CoverInv, ExactInv, cuts' = cuts,
                    Interrupt \/ NumericalFailure \/ OtherFailure \/ Crash
             PROVE  ExactInv'
  OBVIOUS
<1>1. UNCHANGED <<mode, selected>> /\ BlocksUpTo' = BlocksUpTo
  BY SelectionStays, BlocksStay DEF Next
<1>2. CASE Interrupt \/ NumericalFailure \/ OtherFailure
  <2>1. /\ pc \notin Recording \cup {"down", "finally"} /\ pc' \in {"finally", "down"}
        /\ checkpoint' \in {checkpoint, Result} /\ UNCHANGED <<mode, selected, work>>
        /\ outcome' \in {outcome, None}
    BY <1>2 DEF Interrupt, NumericalFailure, OtherFailure, Recording, Cut, CoverInv
  <2>2. outcome = None
    BY <2>1 DEF OrderInv, Reported
  <2> QED BY <2>1, <2>2, BetweenGroups DEF Recording
<1>3. CASE Crash
  <2>1. pc' = "down" /\ outcome' = None /\ checkpoint' = checkpoint
    BY <1>3 DEF Crash
  <2>2. checkpoint' # None => Uninterrupted(checkpoint.work, Len(checkpoint.work.completed))'
    BY <1>1, <2>1 DEF ExactInv, Uninterrupted, ChunksOf, Names, NameOf
  <2> QED BY <2>1, <2>2 DEF ExactInv, Recording, InterruptResumeExact
<1> QED BY <1>2, <1>3

\* The count of cuts never falls.
LEMMA CutsGrow == CoverInv /\ [Next]_vars => cuts' = cuts \/ cuts' = cuts + 1
<1> SUFFICES ASSUME CoverInv, [Next]_vars PROVE cuts' = cuts \/ cuts' = cuts + 1
  OBVIOUS
<1>1. cuts \in Nat
  BY DEF CoverInv
<1>2. CASE Invoke
  BY <1>2 DEF Invoke, StartFresh, Resume, RefuseResume, Begin
<1>3. CASE Group
  BY <1>3 DEF Group, NextGroup, LoopDone, StopBeforeGroup, Enter, ExamineChunk, StopInsideChunk,
    ChunksDone, Break, counters
<1>4. CASE Record
  BY <1>4 DEF Record, AppendBlock, BlocksDone, AppendDestination, AppendCompleted, StopRetained,
    WithinRetained, PeriodicPersist, SkipPersist, Return, Break, counters
<1>5. CASE Interrupt \/ OtherFailure
  BY <1>1, <1>5 DEF Interrupt, OtherFailure, Cut
<1>6. CASE NumericalFailure \/ Crash
  BY <1>6 DEF NumericalFailure, Crash
<1>7. CASE UNCHANGED vars
  BY <1>7 DEF vars, counters
<1> QED BY <1>2, <1>3, <1>4, <1>5, <1>6, <1>7 DEF Next, Process

LEMMA ExactInvHolds == Spec => [](cuts = 0 => ExactInv)
<1>1. OrderInv /\ CoverInv /\ (cuts = 0 => ExactInv) /\ [Next]_vars => (cuts = 0 => ExactInv)'
  <2> SUFFICES ASSUME OrderInv, CoverInv, cuts = 0 => ExactInv, [Next]_vars, cuts' = 0
               PROVE  ExactInv'
    OBVIOUS
  <2>1. cuts = 0 /\ ExactInv /\ cuts' = cuts
    BY CutsGrow DEF CoverInv
  <2>2. CASE UNCHANGED vars
    <3>1. UNCHANGED <<mode, selected, pc, work, current, chunk, queue, checkpoint, outcome>>
      BY <2>2 DEF vars, memory
    <3>2. BlocksUpTo' = BlocksUpTo
      BY <3>1, BlocksStay
    <3> QED BY <2>1, <3>1, <3>2 DEF ExactInv, Uninterrupted, Covered, ChunksOf, Names, NameOf, Done,
          InterruptResumeExact
  <2> QED BY <2>1, <2>2, InvokeKeepsExact, GroupKeepsExact, RecordKeepsExact, EnvironmentKeepsExact
      DEF Next, Process
<1>2. Init => (cuts = 0 => ExactInv)
  BY ExactInitHolds
<1> QED BY <1>1, <1>2, OrderInvHolds, CoverInvHolds, PTL DEF Spec

\* However often the preflight was stopped, interrupted, crashed and resumed, and
\* wherever, the checkpoint holds the summaries of each group it counts as
\* completed, whole and in order; what it holds besides is bounded by the
\* recordings that were cut short, and is nothing without one.
THEOREM CheckpointStaysWhole == Spec => []CheckpointIsWhole
<1>1. OrderInv /\ CoverInv /\ (cuts = 0 => ExactInv) => CheckpointIsWhole
  <2> SUFFICES ASSUME OrderInv, CoverInv, cuts = 0 => ExactInv, checkpoint # None
               PROVE  \E n \in 0 .. Len(selected) : Recorded(checkpoint.work, n)
    BY DEF CheckpointIsWhole
  <2> DEFINE n == Len(checkpoint.work.completed)
  <2>1. n \in 0 .. Len(selected) /\ checkpoint.work.completed = SubSeq(selected, 1, n)
    BY LenProperties, PreflightAssumption DEF OrderInv, TypeOK, OnDisk, Results, Work, Chosen, First
  <2>2. Gathered(checkpoint.work, n) /\ Len(checkpoint.work.destination) <= n + cuts
    BY DEF CoverInv, CheckpointCovers
  <2>3. cuts = 0 => Uninterrupted(checkpoint.work, n)
    BY DEF ExactInv
  <2> HIDE DEF n
  <2>4. Recorded(checkpoint.work, n)
    BY <2>1, <2>2, <2>3 DEF Recorded, Gathered
  <2> QED BY <2>1, <2>4
<1> QED BY <1>1, OrderInvHolds, CoverInvHolds, ExactInvHolds, PTL

\* A result "completed" has every selected group recorded in the same sense.
THEOREM CompletionIsComplete == Spec => []CompletedIsComplete
<1>1. CoverInv /\ (cuts = 0 => ExactInv) => CompletedIsComplete
  <2> SUFFICES ASSUME CoverInv, cuts = 0 => ExactInv, outcome # None, outcome.status = "completed"
               PROVE  Recorded(outcome.work, Len(selected))
    BY DEF CompletedIsComplete
  <2>1. /\ outcome.work.completed = First(Chosen) /\ Gathered(outcome.work, Chosen)
        /\ Len(outcome.work.destination) <= Chosen + cuts
    BY DEF CoverInv, OutcomeCovers
  <2>2. cuts = 0 => Uninterrupted(outcome.work, Len(selected))
    BY DEF ExactInv, InterruptResumeExact
  <2> QED BY <2>1, <2>2 DEF Recorded, Gathered, First, Chosen
<1> QED BY <1>1, CoverInvHolds, ExactInvHolds, PTL
================================================================================
