---------------------------- MODULE Runtime_proofs ----------------------------
(***************************************************************************)
(* Proofs about the protocols around runtime.sqlite3 and its directory:    *)
(* for every threshold, limit and number of runs, items and crashes, a     *)
(* session keeps its newest items without a gap; and for every number of   *)
(* processes, operators, versions, deliveries and tools, the older files   *)
(* are taken over once, a rollback goes back, a delivery is handed on once *)
(* and runs that share tools lose nothing.                                 *)
(***************************************************************************)
EXTENDS Runtime, TLAPS, SequenceTheorems, WellFoundedInduction

-----------------------------------------------------------------------------
(* The session of a task                                                   *)

\* One item is kept at least, and what is compacted is longer by two.
LEMMA Limits ==
  /\ Threshold \in Nat /\ Keep \in Nat /\ Keep >= 1 /\ Threshold >= Keep + 1
  BY SessionAssumption DEF SessionAssumption

-----------------------------------------------------------------------------
(* Types                                                                   *)

\* Type correctness, which the lemmas about sequences rest on.
LEMMA NoItems == Empty \in Items /\ Len(Empty) = 0
  BY DEF Items, Empty

LEMMA TypesInit == Init => TypeOK
<1> SUFFICES ASSUME Init PROVE TypeOK
  OBVIOUS
<1>1. items \in [Sessions -> Items]
  BY NoItems DEF Init
<1>2. added \in [Sessions -> Nat] /\ memory \in [Sessions -> Int]
  BY DEF Init
<1>3. record \in [thread : Nat, progress : Nat]
  BY DEF Init, None
<1>4. NoRun \in Runs
  BY NoItems DEF NoRun, Runs, None, Sessions
<1>5. orphan \in BOOLEAN
  BY DEF Init
<1>6. spent \in [runs : Nat, crashes : Nat] /\ announced \in Nat
  BY DEF Init, None
<1>7. calls \subseteq Callers /\ output \in {"none"} \cup Callers
  BY DEF Init
<1>. QED
  BY <1>1, <1>2, <1>3, <1>4, <1>5, <1>6, <1>7 DEF TypeOK, Init

LEMMA NoRunType == NoRun \in Runs
  BY NoItems DEF NoRun, Runs, None, Sessions

\* What is put back is a checkpoint and what is kept.
LEMMA KeptTypes ==
  ASSUME NEW q \in Items, Len(q) > Keep
  PROVE  /\ q[Len(q) - Keep] \in Int
         /\ SubSeq(q, Len(q) - Keep + 1, Len(q)) \in Items
         /\ <<-q[Len(q) - Keep]>> \o SubSeq(q, Len(q) - Keep + 1, Len(q)) \in Items
<1>1. Len(q) - Keep \in 1 .. Len(q)
  BY Limits DEF Items
<1>2. q[Len(q) - Keep] \in Int
  BY <1>1 DEF Items
<1>3. SubSeq(q, Len(q) - Keep + 1, Len(q)) \in Items
  BY Limits DEF Items
<1>4. <<-q[Len(q) - Keep]>> \in Items
  BY <1>2 DEF Items
<1>. QED
  BY <1>2, <1>3, <1>4 DEF Items

\* The numbers that follow.
LEMMA NumberedIs ==
  ASSUME NEW from \in Nat, NEW n \in 1 .. 2
  PROVE  /\ Numbered(from, from + n) \in Items
         /\ Len(Numbered(from, from + n)) = n
         /\ \A i \in 1 .. n : Numbered(from, from + n)[i] = from + i
<1>1. from + n - from = n
  OBVIOUS
<1>2. Numbered(from, from + n) = [i \in 1 .. n |-> from + i]
  BY <1>1 DEF Numbered
<1>3. [i \in 1 .. n |-> from + i] \in Seq(Int)
  OBVIOUS
<1>. QED
  BY <1>2, <1>3 DEF Items

LEMMA TypesNext == TypeOK /\ [Next]_vars => TypeOK'
<1> SUFFICES ASSUME TypeOK, [Next]_vars PROVE TypeOK'
  OBVIOUS
<1> USE NoItems, NoRunType DEF TypeOK, At
<1>s. Here \in Sessions /\ items[Here] \in Items /\ added[Here] \in Nat
  BY DEF Here, Runs
<1>t. ASSUME NEW where \in {"idle", "prepare", "model", "measure", "summarised", "cleared",
                            "cli", "closing", "decode"},
             To(where)
      PROVE  run' \in Runs
  BY <1>t DEF To, Runs
<1>1. CASE Begin
  <2>1. run' \in Runs
    BY <1>1 DEF Begin, NoRun, Runs
  <2>2. spent' = [spent EXCEPT !.runs = spent.runs + 1]
    BY <1>1 DEF Begin
  <2>3. spent.runs + 1 \in Nat
    OBVIOUS
  <2>4. spent' \in [runs : Nat, crashes : Nat]
    BY <2>2, <2>3
  <2>. QED
    BY <1>1, <2>1, <2>4 DEF Begin, store, cli
<1>2. CASE Refuse \/ Interrupted \/ Answered
  BY <1>2 DEF Refuse, Interrupted, Answered, Ends, store, cli
<1>3. CASE Prepared
  BY <1>3, <1>t DEF Prepared, store
<1>4. CASE Delegate \/ Return
  <2>1. run' \in Runs
    BY <1>4 DEF Delegate, Return, Runs, Sessions
  <2>. QED
    BY <1>4, <2>1 DEF Delegate, Return, store, cli
<1>5. ASSUME NEW n \in 1 .. 2, AddItems(n) PROVE TypeOK'
  <2>1. Numbered(added[Here], added[Here] + n) \in Items
    BY <1>s, NumberedIs
  <2>2. items[Here] \o Numbered(added[Here], added[Here] + n) \in Items
    BY <1>s, <2>1 DEF Items
  <2>3. items' \in [Sessions -> Items] /\ added' \in [Sessions -> Nat]
    BY <1>5, <1>s, <2>2 DEF AddItems
  <2>. QED
    BY <1>5, <1>t, <2>3 DEF AddItems, cli
<1>6. CASE Short
  BY <1>6, <1>t DEF Short, store, cli
<1>7. CASE Summarise
  <2>1. Len(items[Here]) > Keep
    BY <1>7, <1>s, Limits DEF Summarise, Items
  <2>2. LastOld(Here) \in Int /\ <<-LastOld(Here)>> \o Recent(Here) \in Items
    BY <1>s, <2>1, KeptTypes DEF LastOld, Recent
  <2>3. run' \in Runs
    BY <1>7, <2>2 DEF Summarise, Runs
  <2>4. memory' \in [Sessions -> Int]
    BY <1>7, <1>s, <2>2 DEF Summarise
  <2>. QED
    BY <1>7, <2>3, <2>4 DEF Summarise, cli
<1>8. CASE Clear
  <2>1. items' \in [Sessions -> Items]
    BY <1>8, <1>s DEF Clear
  <2>. QED
    BY <1>8, <1>t, <2>1 DEF Clear, cli
<1>9. CASE PutBack
  <2>1. items[Here] \o run.kept \in Items
    BY <1>s DEF Runs, Items
  <2>2. items' \in [Sessions -> Items]
    BY <1>9, <1>s, <2>1 DEF PutBack
  <2>3. run' \in Runs
    BY <1>9 DEF PutBack, Runs
  <2>. QED
    BY <1>9, <2>2, <2>3 DEF PutBack, cli
<1>10. CASE Announce
  <2>1. announced' \in Nat
    BY <1>10 DEF Announce, Runs
  <2>2. record' \in [thread : Nat, progress : Nat]
    BY <1>10, <2>1 DEF Announce, Saved
  <2>. QED
    BY <1>10, <2>1, <2>2 DEF Announce, store, cli
<1>11. ASSUME NEW who \in Callers, Call(who) \/ Serve(who) PROVE TypeOK'
  <2>1. calls' \subseteq Callers
    BY <1>11 DEF Call, Serve
  <2>2. record' \in [thread : Nat, progress : Nat]
    BY <1>11 DEF Call, Serve
  <2>. QED
    BY <1>11, <2>1, <2>2 DEF Call, Serve, store
<1>12. ASSUME NEW how \in {"zero", "failed"}, Exit(how) PROVE TypeOK'
  <2>1. run' \in Runs
    BY <1>12 DEF Exit, Runs
  <2>2. output' \in {"none"} \cup Callers
    BY <1>12 DEF Exit, Callers
  <2>. QED
    BY <1>12, <2>1, <2>2 DEF Exit, store
<1>13. CASE Closed \/ Abandoned \/ Decoded
  BY <1>13, <1>t DEF Closed, Abandoned, Decoded, Ends, store
<1>14. CASE Webhook
  <2>1. record' \in [thread : Nat, progress : Nat]
    BY <1>14 DEF Webhook
  <2>. QED
    BY <1>14, <2>1 DEF Webhook, store, cli
<1>15. CASE Crash
  <2>1. spent' \in [runs : Nat, crashes : Nat]
    BY <1>15 DEF Crash
  <2>2. orphan' \in BOOLEAN
    BY <1>15 DEF Crash
  <2>. QED
    BY <1>15, <2>1, <2>2 DEF Crash, Ends, store
<1>16. CASE OrphanEnds
  <2>1. orphan' \in BOOLEAN
    BY <1>16 DEF OrphanEnds
  <2>. QED
    BY <1>16, <2>1 DEF OrphanEnds, store, Callers
<1>17. CASE UNCHANGED vars
  BY <1>17 DEF vars, store, cli
<1>. QED
  BY <1>1, <1>2, <1>3, <1>4, <1>5, <1>6, <1>7, <1>8, <1>9, <1>10, <1>11, <1>12, <1>13,
     <1>14, <1>15, <1>16, <1>17 DEF Next

-----------------------------------------------------------------------------
(* The tail of a session                                                   *)

\* While a compaction is under way, what will be put back is as good as what is
\* there, and nothing is there once the session was cleared.
Returning ==
  run.at \in {"summarised", "cleared"} =>
    /\ Gapless(run.kept, added[Here])
    /\ run.kept # Empty /\ run.kept[1] >= -memory[Here]
    /\ run.at = "cleared" => items[Here] = Empty

Covered == \A s \in Sessions : memory[s] >= 0

SessionInv == TypeOK /\ GaplessTail /\ Returning /\ Covered

\* New items follow the newest one.
LEMMA AppendGapless ==
  ASSUME NEW q \in Items, NEW top \in Nat, NEW n \in 1 .. 2, Gapless(q, top)
  PROVE  LET new == q \o Numbered(top, top + n) IN
         /\ Gapless(new, top + n)
         /\ q # Empty => new[1] = q[1]
         /\ q = Empty => new[1] = top + 1
<1> DEFINE tail == Numbered(top, top + n)
           new == q \o tail
<1>1. /\ tail \in Seq(Int) /\ Len(tail) = n
      /\ \A i \in 1 .. n : tail[i] = top + i
  BY NumberedIs DEF Items
<1> HIDE DEF tail
<1>2. /\ Len(new) = Len(q) + n /\ Len(q) \in Nat
      /\ \A i \in 1 .. Len(q) : new[i] = q[i]
      /\ \A i \in Len(q) + 1 .. Len(q) + n : new[i] = tail[i - Len(q)]
  BY <1>1 DEF Items
<1>3. \A i \in Len(q) + 1 .. Len(q) + n : new[i] = top + (i - Len(q))
  BY <1>1, <1>2
<1> HIDE DEF new
<1>4. Gapless(new, top + n)
  <2> SUFFICES ASSUME NEW i \in 1 .. Len(new)
               PROVE  Upto(new[i]) = top + n - (Len(new) - i) /\ (i > 1 => new[i] > 0)
    BY DEF Gapless
  <2>1. CASE i \in 1 .. Len(q)
    <3>1. Upto(q[i]) = top - (Len(q) - i) /\ (i > 1 => q[i] > 0)
      BY <2>1 DEF Gapless
    <3>2. new[i] = q[i]
      BY <1>2, <2>1
    <3>3. top - (Len(q) - i) = top + n - (Len(new) - i)
      BY <1>2
    <3>. QED
      BY <3>1, <3>2, <3>3
  <2>2. CASE i \in Len(q) + 1 .. Len(q) + n
    <3>1. new[i] = top + (i - Len(q)) /\ i - Len(q) >= 1
      BY <1>2, <1>3, <2>2
    <3>. QED
      BY <1>2, <3>1 DEF Upto
  <2>. QED
    BY <1>2, <2>1, <2>2
<1>5. q # Empty => new[1] = q[1]
  <2>1. q # Empty => Len(q) >= 1
    BY DEF Items, Empty
  <2>. QED
    BY <1>2, <2>1
<1>6. q = Empty => new[1] = top + 1
  <2>1. q = Empty => Len(q) = 0
    BY NoItems
  <2>. QED
    BY <1>3, <2>1
<1>. QED
  BY <1>4, <1>5, <1>6 DEF new, tail

\* A checkpoint of the old items and the recent ones are as good as all.
LEMMA CompactGapless ==
  ASSUME NEW q \in Items, NEW top \in Nat, Len(q) > Threshold, Gapless(q, top)
  PROVE  LET old == q[Len(q) - Keep]
             kept == <<-old>> \o SubSeq(q, Len(q) - Keep + 1, Len(q)) IN
         /\ old > 0 /\ q[1] >= -old
         /\ Gapless(kept, top) /\ kept # Empty /\ kept[1] = -old
<1> DEFINE old == q[Len(q) - Keep]
           recent == SubSeq(q, Len(q) - Keep + 1, Len(q))
           kept == <<-old>> \o recent
<1>1. Len(q) \in Nat /\ Len(q) >= Keep + 2 /\ \A i \in 1 .. Len(q) : q[i] \in Int
  BY Limits DEF Items
<1>2. old \in Int /\ old > 0 /\ old = top - Keep
  <2>1. Len(q) - Keep \in 1 .. Len(q) /\ Len(q) - Keep > 1
    BY <1>1, Limits
  <2>2. Upto(old) = top - (Len(q) - (Len(q) - Keep)) /\ old > 0
    BY <2>1 DEF Gapless
  <2>3. old \in Int
    BY <1>1, <2>1
  <2>. QED
    BY <1>1, <2>2, <2>3, Limits DEF Upto
<1>3. q[1] >= -old
  <2>1. Upto(q[1]) = top - (Len(q) - 1) /\ q[1] \in Int
    BY <1>1, Limits DEF Gapless
  <2>. QED
    BY <1>1, <1>2, <2>1, Limits DEF Upto
<1>4. /\ recent \in Seq(Int) /\ Len(recent) = Keep
      /\ \A j \in 1 .. Keep : recent[j] = q[Len(q) - Keep + j]
  BY <1>1, Limits DEF Items
<1> HIDE DEF old, recent
<1>5. /\ kept \in Seq(Int) /\ Len(kept) = Keep + 1 /\ kept[1] = -old
      /\ \A j \in 2 .. Keep + 1 : kept[j] = recent[j - 1]
  BY <1>2, <1>4, Limits
<1>6. kept # Empty
  BY <1>5, NoItems, Limits
<1> HIDE DEF kept
<1>7. Gapless(kept, top)
  <2>0. Len(kept) = Keep + 1
    BY <1>5
  <2> SUFFICES ASSUME NEW j \in 1 .. Len(kept)
               PROVE  Upto(kept[j]) = top - (Len(kept) - j) /\ (j > 1 => kept[j] > 0)
    BY DEF Gapless
  <2>1. CASE j = 1
    BY <1>2, <1>5, <2>0, <2>1, Limits DEF Upto
  <2>2. CASE j \in 2 .. Keep + 1
    <3>1. j - 1 \in 1 .. Keep
      BY <2>2, Limits
    <3>2. kept[j] = q[Len(q) - Keep + (j - 1)]
      BY <1>4, <1>5, <2>2, <3>1
    <3>3. /\ Len(q) - Keep + (j - 1) \in 1 .. Len(q) /\ Len(q) - Keep + (j - 1) > 1
          /\ top - (Len(q) - (Len(q) - Keep + (j - 1))) = top - ((Keep + 1) - j)
      BY <1>1, <3>1, Limits
    <3>4. /\ Upto(q[Len(q) - Keep + (j - 1)]) = top - (Len(q) - (Len(q) - Keep + (j - 1)))
          /\ q[Len(q) - Keep + (j - 1)] > 0
      BY <3>3 DEF Gapless
    <3>5. Upto(kept[j]) = top - ((Keep + 1) - j) /\ kept[j] > 0
      BY <3>2, <3>3, <3>4, Zenon
    <3>6. Upto(kept[j]) = top - (Len(kept) - j)
      BY <2>0, <3>5, Zenon
    <3>. QED
      BY <3>5, <3>6, Zenon
  <2>. QED
    BY <2>0, <2>1, <2>2, Limits
<1>. QED
  BY <1>2, <1>3, <1>5, <1>6, <1>7 DEF old, recent, kept

\* Most steps change neither what is stored nor what will be put back.
LEMMA SameTail ==
  ASSUME GaplessTail, Covered, UNCHANGED store,
         run'.at \notin {"summarised", "cleared"}
  PROVE  GaplessTail' /\ Returning' /\ Covered'
  BY DEF store, GaplessTail, Covered, Returning

\* Nothing precedes nothing.
LEMMA EmptyGapless == \A top \in Nat : Gapless(Empty, top)
  BY NoItems DEF Gapless

\* The tail survives every step: what is put back follows what is there.
LEMMA TailNext == SessionInv /\ [Next]_vars => (GaplessTail /\ Returning /\ Covered)'
<1> SUFFICES ASSUME SessionInv, [Next]_vars PROVE (GaplessTail /\ Returning /\ Covered)'
  OBVIOUS
<1> USE DEF SessionInv, At
<1>s. /\ Here \in Sessions /\ items[Here] \in Items /\ added[Here] \in Nat
      /\ Gapless(items[Here], added[Here]) /\ run \in Runs
      /\ items \in [Sessions -> Items] /\ added \in [Sessions -> Nat]
      /\ memory \in [Sessions -> Int]
  BY DEF TypeOK, Here, Runs, GaplessTail
<1>n. NoRun.at = "idle"
  BY DEF NoRun
<1>1. CASE Begin
  <2>1. run'.at = "prepare"
    BY <1>1 DEF Begin, NoRun
  <2>. QED
    BY <1>1, <2>1, SameTail DEF Begin
<1>2. CASE Refuse \/ Interrupted \/ Answered \/ Closed \/ Abandoned \/ Decoded \/ Crash
  <2>1. run'.at \notin {"summarised", "cleared"}
    BY <1>2, <1>n, <1>s DEF Refuse, Interrupted, Answered, Closed, Abandoned, Decoded, Crash,
       Ends, To, Runs
  <2>2. UNCHANGED store
    BY <1>2 DEF Refuse, Interrupted, Answered, Closed, Abandoned, Decoded, Crash
  <2>. QED
    BY <2>1, <2>2, SameTail
<1>3. CASE Prepared \/ Short \/ Delegate \/ Return
  <2>1. run'.at \in {"model", "cli"}
    BY <1>3, <1>s DEF Prepared, Short, Delegate, Return, To, Runs
  <2>2. UNCHANGED store
    BY <1>3 DEF Prepared, Short, Delegate, Return
  <2>. QED
    BY <2>1, <2>2, SameTail
<1>4. ASSUME NEW how \in {"zero", "failed"}, Exit(how)
      PROVE  (GaplessTail /\ Returning /\ Covered)'
  <2>1. run'.at = "closing"
    BY <1>4, <1>s DEF Exit, Runs
  <2>. QED
    BY <1>4, <2>1, SameTail DEF Exit
<1>5. ASSUME UNCHANGED store, UNCHANGED run
      PROVE  (GaplessTail /\ Returning /\ Covered)'
  BY <1>5 DEF store, GaplessTail, Returning, Covered, Here
<1>6. ASSUME NEW n \in 1 .. 2, AddItems(n)
      PROVE  (GaplessTail /\ Returning /\ Covered)'
  <2> DEFINE new == items[Here] \o Numbered(added[Here], added[Here] + n)
  <2>1. /\ Gapless(new, added[Here] + n)
        /\ items[Here] # Empty => new[1] = items[Here][1]
        /\ items[Here] = Empty => new[1] = added[Here] + 1
    BY <1>s, AppendGapless
  <2>2. new[1] >= -memory[Here]
    <3>1. items[Here] # Empty => items[Here][1] >= -memory[Here]
      BY <1>s DEF GaplessTail
    <3>2. memory[Here] >= 0 /\ memory[Here] \in Int
      BY <1>s DEF Covered
    <3>3. CASE items[Here] = Empty
      <4>1. new[1] = added[Here] + 1
        BY <2>1, <3>3
      <4>. HIDE DEF new
      <4>. QED
        BY <1>s, <3>2, <4>1
    <3>4. CASE items[Here] # Empty
      <4>1. new[1] = items[Here][1]
        BY <2>1, <3>4
      <4>. HIDE DEF new
      <4>. QED
        BY <3>1, <3>4, <4>1
    <3>. QED
      BY <3>3, <3>4
  <2>3. /\ items' = [items EXCEPT ![Here] = new]
        /\ added' = [added EXCEPT ![Here] = added[Here] + n]
        /\ memory' = memory
    BY <1>6 DEF AddItems
  <2> HIDE DEF new
  <2>4. GaplessTail'
    BY <1>s, <2>1, <2>2, <2>3 DEF GaplessTail
  <2>5. run'.at = "measure"
    BY <1>6, <1>s DEF AddItems, To, Runs
  <2>. QED
    BY <2>3, <2>4, <2>5 DEF Returning, Covered
<1>7. CASE Summarise
  <2>1. Len(items[Here]) > Threshold
    BY <1>7 DEF Summarise
  <2> DEFINE kept == <<-LastOld(Here)>> \o Recent(Here)
  <2>2. /\ LastOld(Here) > 0 /\ items[Here][1] >= -LastOld(Here)
        /\ Gapless(kept, added[Here]) /\ kept # Empty /\ kept[1] = -LastOld(Here)
    BY <1>s, <2>1, CompactGapless DEF LastOld, Recent
  <2>3. LastOld(Here) \in Int
    <3>1. Len(items[Here]) > Keep
      BY <1>s, <2>1, Limits DEF Items
    <3>. QED
      BY <1>s, <3>1, KeptTypes DEF LastOld
  <2>4. /\ run' = [run EXCEPT !.at = "summarised", !.kept = kept]
        /\ memory' = [memory EXCEPT ![Here] = LastOld(Here)]
        /\ items' = items /\ added' = added
    BY <1>7 DEF Summarise
  <2> HIDE DEF kept
  <2>5. run'.at = "summarised" /\ run'.kept = kept /\ Here' = Here
    BY <1>s, <2>4 DEF Runs, Here
  <2>6. GaplessTail'
    BY <1>s, <2>2, <2>4 DEF GaplessTail
  <2>7. Covered'
    BY <1>s, <2>2, <2>3, <2>4 DEF Covered
  <2>8. memory'[Here] = LastOld(Here) /\ kept[1] >= -LastOld(Here)
    BY <1>s, <2>2, <2>3, <2>4
  <2>9. Returning'
    BY <2>2, <2>4, <2>5, <2>8 DEF Returning
  <2>. QED
    BY <2>6, <2>7, <2>9
<1>8. CASE Clear
  <2>1. /\ run' = [run EXCEPT !.at = "cleared"]
        /\ items' = [items EXCEPT ![Here] = Empty]
        /\ added' = added /\ memory' = memory /\ run.at = "summarised"
    BY <1>8 DEF Clear, To
  <2>2. run'.kept = run.kept /\ Here' = Here /\ items'[Here] = Empty
    BY <1>s, <2>1 DEF Runs, Here
  <2>3. GaplessTail'
    BY <1>s, <2>1, EmptyGapless DEF GaplessTail
  <2>. QED
    BY <2>1, <2>2, <2>3 DEF Returning, Covered
<1>9. CASE PutBack
  <2>1. /\ run' = [run EXCEPT !.at = "model", !.kept = Empty]
        /\ items' = [items EXCEPT ![Here] = items[Here] \o run.kept]
        /\ added' = added /\ memory' = memory /\ run.at = "cleared"
    BY <1>9 DEF PutBack
  <2>2. /\ Gapless(run.kept, added[Here])
        /\ run.kept # Empty /\ run.kept[1] >= -memory[Here]
        /\ items[Here] = Empty
    BY <2>1 DEF Returning
  <2>3. items[Here] \o run.kept = run.kept
    <3>1. run.kept \in Seq(Int)
      BY <1>s DEF Runs, Items
    <3>. QED
      BY <2>2, <3>1 DEF Empty
  <2>4. GaplessTail'
    BY <1>s, <2>1, <2>2, <2>3 DEF GaplessTail
  <2>5. run'.at = "model"
    BY <1>s, <2>1 DEF Runs
  <2>. QED
    BY <2>1, <2>4, <2>5 DEF Returning, Covered
<1>10. CASE Announce
  BY <1>5, <1>10 DEF Announce
<1>11. ASSUME NEW who \in Callers, Call(who) \/ Serve(who)
       PROVE  (GaplessTail /\ Returning /\ Covered)'
  BY <1>5, <1>11 DEF Call, Serve
<1>12. CASE Webhook \/ OrphanEnds
  BY <1>5, <1>12 DEF Webhook, OrphanEnds
<1>13. CASE UNCHANGED vars
  BY <1>5, <1>13 DEF vars
<1>. QED
  BY <1>1, <1>2, <1>3, <1>4, <1>6, <1>7, <1>8, <1>9, <1>10, <1>11, <1>12, <1>13 DEF Next

LEMMA SessionInvInit == Init => SessionInv
<1> SUFFICES ASSUME Init PROVE SessionInv
  OBVIOUS
<1>1. GaplessTail
  BY EmptyGapless DEF Init, GaplessTail
<1>2. Returning /\ Covered
  BY DEF Init, Returning, Covered, NoRun
<1>. QED
  BY <1>1, <1>2, TypesInit DEF SessionInv

\* What is stored, what is being put back and what memory.md covers, together,
\* are inductive.
THEOREM SessionInvariant == Spec => []SessionInv
<1>1. SessionInv /\ [Next]_vars => SessionInv'
  BY TypesNext, TailNext DEF SessionInv
<1>. QED
  BY <1>1, SessionInvInit, PTL DEF Spec

\* Type correctness of a session and its runs.
THEOREM SessionTypes == Spec => []TypeOK
  BY SessionInvariant, PTL DEF SessionInv

\* However long a session gets and wherever compaction is interrupted, what it
\* holds is its newest items without a gap, for every threshold and limit.
THEOREM SessionIsGapless == Spec => []GaplessTail
  BY SessionInvariant, PTL DEF SessionInv

-----------------------------------------------------------------------------
(* The record                                                              *)

\* A run without a thread, in the copy it loaded, is the only one that could
\* have given the record a thread since.
ThreadInv ==
  /\ spent.runs >= 0
  /\ run.at # "idle" =>
       /\ spent.runs >= 1
       /\ IF run.task.thread = None THEN record.thread \in {None, spent.runs}
          ELSE record.thread = run.task.thread

LEMMA ThreadInvInit == Init => ThreadInv
  BY DEF Init, ThreadInv, NoRun

LEMMA ThreadInvNext == TypeOK /\ ThreadInv /\ [Next]_vars => ThreadInv'
<1> SUFFICES ASSUME TypeOK, ThreadInv, [Next]_vars PROVE ThreadInv'
  OBVIOUS
<1> USE DEF ThreadInv, At, None
<1>s. /\ run \in Runs /\ record \in [thread : Nat, progress : Nat]
      /\ spent \in [runs : Nat, crashes : Nat]
  BY DEF TypeOK
<1>n. NoRun.at = "idle"
  BY DEF NoRun
<1>1. CASE Begin
  <2>1. spent' = [spent EXCEPT !.runs = spent.runs + 1] /\ record' = record
    BY <1>1 DEF Begin
  <2>2. spent'.runs = spent.runs + 1
    BY <1>s, <2>1
  <2>3. run'.task = record
    BY <1>1 DEF Begin, NoRun
  <2>. QED
    BY <1>s, <2>1, <2>2, <2>3
<1>2. CASE Refuse \/ Interrupted \/ Answered \/ Abandoned \/ Decoded
  BY <1>2, <1>n DEF Refuse, Interrupted, Answered, Abandoned, Decoded, Ends
<1>3. CASE Crash
  <2>1. run' = NoRun /\ spent' = [spent EXCEPT !.crashes = spent.crashes + 1]
    BY <1>3 DEF Crash, Ends
  <2>2. spent'.runs = spent.runs
    BY <1>s, <2>1
  <2>. QED
    BY <1>n, <2>1, <2>2
<1>4. ASSUME run.at # "idle", run'.task = run.task, UNCHANGED <<record, spent>>
      PROVE  ThreadInv'
  BY <1>4
<1>5. CASE Prepared \/ Short \/ Clear \/ Summarise \/ PutBack \/ Delegate \/ Return
  <2>1. run.at # "idle" /\ UNCHANGED <<record, spent>>
    BY <1>5 DEF Prepared, Short, Clear, Summarise, PutBack, Delegate, Return
  <2>2. run'.task = run.task
    BY <1>5, <1>s DEF Prepared, Short, Clear, Summarise, PutBack, Delegate, Return, To, Runs
  <2>. QED
    BY <1>4, <2>1, <2>2
<1>6. ASSUME NEW n \in 1 .. 2, AddItems(n) PROVE ThreadInv'
  BY <1>4, <1>6, <1>s DEF AddItems, To, Runs
<1>7. ASSUME NEW how \in {"zero", "failed"}, Exit(how) PROVE ThreadInv'
  BY <1>4, <1>7, <1>s DEF Exit, Runs
<1>8. CASE Closed
  BY <1>4, <1>8, <1>s, <1>n DEF Closed, To, Ends, Runs
<1>9. CASE Announce
  <2>1. /\ record' = [record EXCEPT !.thread = announced'] /\ run' = run /\ spent' = spent
        /\ announced' = IF run.task.thread # None THEN run.task.thread ELSE spent.runs
    BY <1>9 DEF Announce, Saved
  <2>2. record'.thread = announced'
    BY <1>s, <2>1
  <2>. QED
    BY <2>1, <2>2
<1>10. ASSUME record'.thread = record.thread, UNCHANGED <<run, spent>>
       PROVE  ThreadInv'
  BY <1>10
<1>11. ASSUME NEW who \in Callers, Call(who) \/ Serve(who) PROVE ThreadInv'
  BY <1>10, <1>11, <1>s DEF Call, Serve
<1>12. CASE Webhook \/ OrphanEnds \/ UNCHANGED vars
  BY <1>10, <1>12, <1>s DEF Webhook, OrphanEnds, vars
<1>. QED
  BY <1>1, <1>2, <1>3, <1>5, <1>6, <1>7, <1>8, <1>9, <1>11, <1>12 DEF Next

\* Saving the thread undoes no save of a webhook or a tool, and no run replaces
\* the thread that an earlier one announced, however many runs and crashes.
THEOREM RecordIsKept == Spec => RecordKept
<1>1. TypeOK /\ ThreadInv /\ [Next]_vars
        => [/\ record'.progress >= record.progress
            /\ record.thread # None => record'.thread = record.thread]_vars
  <2> SUFFICES ASSUME TypeOK, ThreadInv, [Next]_vars
               PROVE  /\ record'.progress >= record.progress
                      /\ record.thread # None => record'.thread = record.thread
    OBVIOUS
  <2>s. /\ record \in [thread : Nat, progress : Nat] /\ spent \in [runs : Nat, crashes : Nat]
    BY DEF TypeOK
  <2>1. CASE Announce
    <3>1. /\ record' = [record EXCEPT !.thread = announced'] /\ run.at # "idle"
          /\ announced' = IF run.task.thread # None THEN run.task.thread ELSE spent.runs
      BY <2>1 DEF Announce, Saved, At
    <3>2. record'.thread = announced' /\ record'.progress = record.progress
      BY <2>s, <3>1
    <3>. QED
      BY <2>s, <3>1, <3>2 DEF ThreadInv, None
  <2>2. ASSUME NEW who \in Callers, Serve(who)
        PROVE  /\ record'.progress >= record.progress /\ record'.thread = record.thread
    BY <2>s, <2>2 DEF Serve
  <2>3. CASE Webhook
    BY <2>s, <2>3 DEF Webhook
  <2>4. CASE UNCHANGED record
    BY <2>s, <2>4
  <2>5. UNCHANGED record \/ Announce \/ Webhook \/ \E who \in Callers : Serve(who)
    BY DEF Next, vars, Begin, Refuse, Prepared, Delegate, Return, AddItems, Short, Summarise,
       Clear, PutBack, Interrupted, Answered, Call, Exit, Closed, Abandoned, Decoded, Crash,
       OrphanEnds
  <2>. QED
    BY <2>1, <2>2, <2>3, <2>4, <2>5
<1>2. ThreadInv /\ TypeOK /\ [Next]_vars => ThreadInv'
  BY ThreadInvNext
<1>. QED
  BY <1>1, <1>2, ThreadInvInit, SessionTypes, PTL DEF Spec, RecordKept

-----------------------------------------------------------------------------
(* The tools that runs share                                               *)

Counts == [T!Tool -> [good : Nat, bad : Nat]]
EndKinds == {"good", "bad"}
ToolCalls == [at : {"start", "free"}]
         \cup [at : {"calling"}, tool : T!Tool, attempts : Nat]
         \cup [at : {"ended", "saving"}, tool : T!Tool, end : EndKinds]
         \cup [at : {"installing", "installed"}, tool : Extension]

\* Who saves holds the lock, and what it saves is the file with one end more.
Saving(r) ==
  T!At(r, "saving") =>
    lock = r /\ policy[r] = T!Counted(file, call[r].tool, call[r].end)

\* What has a manifest was installed as a whole, and so was what is about to
\* get one.
WholeOnes ==
  /\ \A x \in manifests : place[x] = "whole"
  /\ \A r \in Run : T!At(r, "installed") => place[call[r].tool] = "whole"

ToolsInv ==
  /\ T!TypeOK /\ call \in [Run -> ToolCalls] /\ outcomes \in Counts /\ policy \in [Run -> Counts]
  /\ T!OutcomesCounted /\ (\A r \in Run : Saving(r))
  /\ T!LoadedIsWhole /\ WholeOnes

\* One end more is counted.
LEMMA CountedTyped ==
  ASSUME NEW s \in Counts, NEW t \in T!Tool, NEW e \in EndKinds
  PROVE  T!Counted(s, t, e) \in Counts
  BY DEF T!Counted, Counts, EndKinds

\* Nothing is called, saved or installed at first.
LEMMA ToolsInit == T!Init => ToolsInv
  <1> SUFFICES ASSUME T!Init PROVE ToolsInv
    OBVIOUS
  <1>1. T!Unknown \in Counts
    BY DEF T!Unknown, Counts
  <1>2. T!TypeOK /\ call \in [Run -> ToolCalls] /\ outcomes \in Counts /\ policy \in [Run -> Counts]
    BY <1>1 DEF T!Init, T!TypeOK, ToolCalls, Counts
  <1> QED
    BY <1>2 DEF T!Init, ToolsInv, T!OutcomesCounted, Saving, T!LoadedIsWhole, WholeOnes, T!At, ToolCalls

\* A lock is passed on with the file, and a directory is whole before its
\* manifest is written.
LEMMA ToolsStep == ToolsInv /\ [T!Next]_(T!vars) => ToolsInv'
  <1> SUFFICES ASSUME ToolsInv, [T!Next]_(T!vars) PROVE ToolsInv'
    OBVIOUS
  <1> USE DEF ToolsInv, T!At
  <1>1. ASSUME NEW r \in Run, T!Begin(r) PROVE ToolsInv'
    <2>1. call' \in [Run -> ToolCalls] /\ policy' \in [Run -> Counts] /\ T!TypeOK'
      BY <1>1 DEF T!Begin, T!Free, T!NoCall, ToolCalls, T!TypeOK, Counts
    <2>2. (\A q \in Run : Saving(q))' /\ T!OutcomesCounted'
      BY <1>1 DEF T!Begin, T!Free, T!NoCall, Saving, T!OutcomesCounted
    <2>3. T!LoadedIsWhole' /\ WholeOnes'
      BY <1>1 DEF T!Begin, T!Free, T!NoCall, T!LoadedIsWhole, WholeOnes, T!TypeOK
    <2> QED
      BY <1>1, <2>1, <2>2, <2>3 DEF T!Begin
  \* A step of r's call that leaves file, policies and extensions alone.
  <1>2. ASSUME NEW r \in Run, NEW c \in ToolCalls, call' = [call EXCEPT ![r] = c],
               c.at \notin {"saving", "installed"}, UNCHANGED <<file, policy, outcomes, T!installed>>,
               lock' \in Run \cup {T!Nobody}, \A q \in Run \ {r} : T!At(q, "saving") => lock' = lock
        PROVE  ToolsInv'
    <2>1. call' \in [Run -> ToolCalls] /\ T!TypeOK'
      BY <1>2 DEF T!TypeOK, T!installed
    <2>2. (\A q \in Run : Saving(q))' /\ T!OutcomesCounted'
      BY <1>2 DEF Saving, T!OutcomesCounted, T!installed
    <2>3. T!LoadedIsWhole' /\ WholeOnes'
      BY <1>2 DEF T!LoadedIsWhole, WholeOnes, T!installed
    <2> QED
      BY <1>2, <2>1, <2>2, <2>3
  <1>3. ASSUME NEW r \in Run, NEW candidates \in SUBSET T!Tool, T!Invoke(r, candidates) PROVE ToolsInv'
    <2>1. PICK t \in T!Tool : call' = [call EXCEPT ![r] = [at |-> "calling", tool |-> t, attempts |-> 1]]
      BY <1>3 DEF T!Invoke, T!Selectable
    <2>2. [at |-> "calling", tool |-> t, attempts |-> 1] \in ToolCalls
      BY DEF ToolCalls
    <2> QED
      BY <1>2, <1>3, <2>1, <2>2 DEF T!Invoke, T!learned, T!TypeOK
  <1>4. ASSUME NEW r \in Run, T!Again(r) PROVE ToolsInv'
    <2>1. PICK t \in T!Tool, n \in Nat : call[r] = [at |-> "calling", tool |-> t, attempts |-> n]
      BY <1>4 DEF T!Again, ToolCalls
    <2>e. [call[r] EXCEPT !.attempts = @ + 1] = [at |-> "calling", tool |-> t, attempts |-> n + 1]
      BY <2>1
    <2>f. call' = [call EXCEPT ![r] = [call[r] EXCEPT !.attempts = @ + 1]]
      BY <1>4 DEF T!Again
    <2>2. call' = [call EXCEPT ![r] = [at |-> "calling", tool |-> t, attempts |-> n + 1]]
      BY <2>e, <2>f
    <2>3. [at |-> "calling", tool |-> t, attempts |-> n + 1] \in ToolCalls
      BY DEF ToolCalls
    <2> QED
      BY <1>2, <1>4, <2>2, <2>3 DEF T!Again, T!learned, T!TypeOK
  <1>5. ASSUME NEW r \in Run, NEW end \in EndKinds, T!Ends(r, end) PROVE ToolsInv'
    <2>1. PICK t \in T!Tool : call[r].tool = t
      BY <1>5 DEF T!Ends, ToolCalls
    <2>2. call' = [call EXCEPT ![r] = [at |-> "ended", tool |-> t, end |-> end]]
      BY <1>5, <2>1 DEF T!Ends
    <2>3. [at |-> "ended", tool |-> t, end |-> end] \in ToolCalls
      BY DEF ToolCalls
    <2> QED
      BY <1>2, <1>5, <2>2, <2>3 DEF T!Ends, T!learned, T!TypeOK
  <1>6. ASSUME NEW r \in Run, T!Record(r) PROVE ToolsInv'
    <2>1. PICK t \in T!Tool, e \in EndKinds : call[r] = [at |-> "ended", tool |-> t, end |-> e]
      BY <1>6 DEF T!Record, ToolCalls
    <2>e. [call[r] EXCEPT !.at = "saving"] = [at |-> "saving", tool |-> t, end |-> e]
      BY <2>1
    <2>f. call' = [call EXCEPT ![r] = [call[r] EXCEPT !.at = "saving"]]
      BY <1>6 DEF T!Record
    <2>g. call[r].tool = t /\ call[r].end = e
      BY <2>1
    <2>h. /\ policy' = [policy EXCEPT ![r] = T!Counted(T!Reread(r), call[r].tool, call[r].end)]
          /\ lock = T!Nobody /\ lock' = r /\ UNCHANGED <<file, outcomes, T!installed>>
      BY <1>6 DEF T!Record
    <2>2. /\ call' = [call EXCEPT ![r] = [at |-> "saving", tool |-> t, end |-> e]]
          /\ policy' = [policy EXCEPT ![r] = T!Counted(file, t, e)]
          /\ lock = T!Nobody /\ lock' = r /\ UNCHANGED <<file, outcomes, T!installed>>
      BY <2>e, <2>f, <2>g, <2>h DEF T!Reread
    <2>3. call' \in [Run -> ToolCalls] /\ policy' \in [Run -> Counts] /\ T!TypeOK'
      BY <2>2, CountedTyped DEF T!TypeOK, T!installed, ToolCalls, Counts
    <2>4. \A q \in Run : call[q].at # "saving"
      BY <2>2, RuntimeAssumption DEF Saving, T!Nobody
    <2>5. (\A q \in Run : Saving(q))' /\ T!OutcomesCounted'
      BY <2>2, <2>4 DEF Saving, T!OutcomesCounted
    <2>6. T!LoadedIsWhole' /\ WholeOnes'
      BY <2>2 DEF T!LoadedIsWhole, WholeOnes, T!installed
    <2> QED
      BY <2>2, <2>3, <2>5, <2>6
  <1>7. ASSUME NEW r \in Run, T!Save(r) PROVE ToolsInv'
    <2>1. PICK t \in T!Tool, e \in EndKinds : call[r] = [at |-> "saving", tool |-> t, end |-> e]
      BY <1>7 DEF T!Save, ToolCalls
    <2>2. /\ call' = [call EXCEPT ![r] = T!NoCall] /\ lock = r /\ lock' = T!Nobody
          /\ file' = T!Counted(file, t, e) /\ outcomes' = T!Counted(outcomes, t, e)
          /\ UNCHANGED <<policy, T!installed>>
      BY <1>7, <2>1 DEF T!Save, T!Free, Saving
    <2>3. call' \in [Run -> ToolCalls] /\ outcomes' \in Counts /\ T!TypeOK'
      BY <2>2, CountedTyped DEF T!TypeOK, T!installed, ToolCalls, Counts, T!NoCall
    <2>4. \A q \in Run : q # r => call[q].at # "saving"
      BY <2>2 DEF Saving
    <2>5. (\A q \in Run : Saving(q))' /\ T!OutcomesCounted'
      BY <2>2, <2>4 DEF Saving, T!OutcomesCounted, T!NoCall
    <2>6. T!LoadedIsWhole' /\ WholeOnes'
      BY <2>2 DEF T!LoadedIsWhole, WholeOnes, T!installed, T!NoCall
    <2> QED
      BY <2>2, <2>3, <2>5, <2>6
  <1>8. ASSUME NEW r \in Run, NEW x \in Extension, T!Install(r, x) PROVE ToolsInv'
    <2>1. /\ call' = [call EXCEPT ![r] = [at |-> "installing", tool |-> x]]
          /\ place' \in [Extension -> {"nothing", "part", "whole"}]
          /\ \A y \in Extension : place[y] = "whole" => place'[y] = "whole"
          /\ UNCHANGED <<file, lock, policy, outcomes, manifests, loaded>>
      BY <1>8 DEF T!Install, T!TypeOK, T!learned
    <2>2. call' \in [Run -> ToolCalls] /\ T!TypeOK'
      BY <2>1 DEF T!TypeOK, ToolCalls
    <2>3. (\A q \in Run : Saving(q))' /\ T!OutcomesCounted'
      BY <2>1 DEF Saving, T!OutcomesCounted
    <2>4. T!LoadedIsWhole'
      BY <2>1 DEF T!LoadedIsWhole, T!TypeOK
    <2>5. \A q \in Run : call[q].at = "installed" => call[q].tool \in Extension
      BY DEF ToolCalls
    <2>6. WholeOnes'
      BY <2>1, <2>5 DEF WholeOnes, T!TypeOK
    <2> QED
      BY <2>1, <2>2, <2>3, <2>4, <2>6
  <1>9. ASSUME NEW r \in Run, T!Unpacked(r) PROVE ToolsInv'
    <2>1. PICK x \in Extension : call[r] = [at |-> "installing", tool |-> x]
      BY <1>9 DEF T!Unpacked, ToolCalls
    <2>e. [call[r] EXCEPT !.at = "installed"] = [at |-> "installed", tool |-> x]
      BY <2>1
    <2>f. call' = [call EXCEPT ![r] = [call[r] EXCEPT !.at = "installed"]]
      BY <1>9 DEF T!Unpacked
    <2>g. call[r].tool = x
      BY <2>1
    <2>h. /\ place' = [place EXCEPT ![call[r].tool] = "whole"]
          /\ UNCHANGED <<file, lock, policy, outcomes, manifests, loaded>>
      BY <1>9 DEF T!Unpacked, T!Stamped, T!learned
    <2>2. /\ call' = [call EXCEPT ![r] = [at |-> "installed", tool |-> x]]
          /\ place' = [place EXCEPT ![x] = "whole"]
          /\ UNCHANGED <<file, lock, policy, outcomes, manifests, loaded>>
      BY <2>e, <2>f, <2>g, <2>h
    <2>3. call' \in [Run -> ToolCalls] /\ T!TypeOK'
      BY <2>2 DEF T!TypeOK, ToolCalls
    <2>4. (\A q \in Run : Saving(q))' /\ T!OutcomesCounted'
      BY <2>2 DEF Saving, T!OutcomesCounted
    <2>5. T!LoadedIsWhole'
      BY <2>2 DEF T!LoadedIsWhole, T!TypeOK
    <2>6. \A q \in Run : call[q].at = "installed" => call[q].tool \in Extension
      BY DEF ToolCalls
    <2>7. WholeOnes'
      BY <2>2, <2>6 DEF WholeOnes, T!TypeOK
    <2> QED
      BY <2>2, <2>3, <2>4, <2>5, <2>7
  <1>10. ASSUME NEW r \in Run, T!Installed(r) PROVE ToolsInv'
    <2>1. PICK x \in Extension : call[r] = [at |-> "installed", tool |-> x]
      BY <1>10 DEF T!Installed, ToolCalls
    <2>2. /\ call' = [call EXCEPT ![r] = T!NoCall] /\ manifests' = manifests \cup {x}
          /\ loaded' = [loaded EXCEPT ![r] = @ \cup {x}] /\ place[x] = "whole"
          /\ UNCHANGED <<file, lock, policy, outcomes, place>>
      BY <1>10, <2>1 DEF T!Installed, T!Free, WholeOnes, T!learned
    <2>3. call' \in [Run -> ToolCalls] /\ T!TypeOK'
      BY <2>2 DEF T!TypeOK, ToolCalls, T!NoCall
    <2>4. (\A q \in Run : Saving(q))' /\ T!OutcomesCounted'
      BY <2>2 DEF Saving, T!OutcomesCounted, T!NoCall
    <2>5. T!LoadedIsWhole'
      BY <2>2 DEF T!LoadedIsWhole, T!TypeOK
    <2>6. WholeOnes'
      BY <2>2 DEF WholeOnes, T!TypeOK, T!NoCall
    <2> QED
      BY <2>2, <2>3, <2>4, <2>5, <2>6
  <1>11. ASSUME NEW r \in Run, T!Cut(r) PROVE ToolsInv'
    <2>1. [at |-> "start"] \in ToolCalls
      BY DEF ToolCalls
    <2>2. \A q \in Run \ {r} : T!At(q, "saving") => lock # r
      BY DEF Saving
    <2> QED
      BY <1>2, <1>11, <2>1, <2>2 DEF T!Cut, T!TypeOK
  <1>12. CASE UNCHANGED T!vars
    BY <1>12 DEF T!vars, T!learned, T!installed, T!TypeOK, T!OutcomesCounted, Saving, T!LoadedIsWhole, WholeOnes
  <1> QED
    BY <1>1, <1>3, <1>4, <1>5, <1>6, <1>7, <1>8, <1>9, <1>10, <1>11, <1>12 DEF T!Next, EndKinds

\* The policy's file and the directory of extensions are sound at every point
\* of every call, of any number of runs (adaptive.py, extensions.py).
THEOREM ToolsInvariant == T!Spec => []ToolsInv
  BY ToolsInit, ToolsStep, PTL DEF T!Spec

-----------------------------------------------------------------------------
(* Deliveries                                                              *)

\* What is in a window, and that nothing is there twice.
InSeq(q) == {q[i] : i \in 1..Len(q)}
Unique(q) == \A i, j \in 1..Len(q) : q[i] = q[j] => i = j

\* A name comes in at the end, and the oldest goes.
LEMMA AppendFacts ==
  ASSUME NEW S, NEW q \in Seq(S), NEW x \in S
  PROVE  /\ Append(q, x) \in Seq(S)
         /\ InSeq(Append(q, x)) = InSeq(q) \union {x}
         /\ Unique(q) /\ x \notin InSeq(q) => Unique(Append(q, x))
<1>1. /\ Append(q, x) \in Seq(S)
      /\ Len(Append(q, x)) = Len(q) + 1
      /\ Append(q, x)[Len(q) + 1] = x
      /\ \A i \in 1..Len(q) : Append(q, x)[i] = q[i]
      /\ Len(q) \in Nat
  OBVIOUS
<1>2. InSeq(Append(q, x)) = InSeq(q) \union {x}
  BY <1>1 DEF InSeq
<1>3. ASSUME Unique(q), x \notin InSeq(q) PROVE Unique(Append(q, x))
  BY <1>1, <1>3 DEF InSeq, Unique
<1> QED BY <1>1, <1>2, <1>3

LEMMA TailFacts ==
  ASSUME NEW S, NEW q \in Seq(S), q # <<>>, Unique(q)
  PROVE  /\ Head(q) \in S /\ Head(q) \in InSeq(q)
         /\ Tail(q) \in Seq(S)
         /\ InSeq(Tail(q)) = InSeq(q) \ {Head(q)}
         /\ Unique(Tail(q))
<1>1. /\ Tail(q) \in Seq(S)
      /\ Len(q) \in Nat \ {0}
      /\ Len(Tail(q)) = Len(q) - 1
      /\ Head(q) = q[1] /\ Head(q) \in S
      /\ \A i \in 1..Len(q) - 1 : Tail(q)[i] = q[i + 1]
  OBVIOUS
<1>2. Head(q) \in InSeq(q)
  BY <1>1 DEF InSeq
<1>3. Unique(Tail(q))
  BY <1>1 DEF Unique
<1>4. InSeq(Tail(q)) \subseteq InSeq(q) \ {Head(q)}
  <2> SUFFICES ASSUME NEW i \in 1..Len(Tail(q))
               PROVE  Tail(q)[i] \in InSeq(q) \ {Head(q)}
    BY DEF InSeq
  <2>1. i + 1 \in 1..Len(q) /\ i + 1 # 1 /\ 1 \in 1..Len(q) /\ Tail(q)[i] = q[i + 1]
    BY <1>1
  <2> QED BY <1>1, <2>1 DEF InSeq, Unique
<1>5. InSeq(q) \ {Head(q)} \subseteq InSeq(Tail(q))
  <2> SUFFICES ASSUME NEW i \in 1..Len(q), q[i] # q[1]
               PROVE  q[i] \in InSeq(Tail(q))
    BY <1>1 DEF InSeq
  <2>1. i - 1 \in 1..Len(Tail(q)) /\ Tail(q)[i - 1] = q[i]
    BY <1>1
  <2> QED BY <2>1 DEF InSeq
<1> QED BY <1>1, <1>2, <1>3, <1>4, <1>5

\* Where a request can be.
Requests == {D!Nothing} \cup [at : {"body", "handling"}, delivery : Delivery]

\* A name that was handed on is in the window until it is forgotten, and the
\* window has every name once.
HooksInv ==
  /\ D!TypeOK /\ request \in [Request -> Requests]
  /\ names = InSeq(window) /\ Unique(window)
  /\ \A d \in Delivery : handled[d] > 0 => d \in names \cup forgotten
  /\ \A d \in Delivery \ forgotten : handled[d] <= 1

LEMMA NoNames == ASSUME NEW s, s = <<>> PROVE Unique(s) /\ InSeq(s) = {}
  BY DEF InSeq, Unique

LEMMA HooksInit == D!Init => HooksInv
  <1> SUFFICES ASSUME D!Init PROVE HooksInv
    OBVIOUS
  <1>1. window \in Seq(Delivery) /\ Len(window) = 0
    BY DEF D!Init
  <1>2. Unique(window) /\ InSeq(window) = {}
    BY NoNames DEF D!Init
  <1> QED
    BY <1>1, <1>2, RuntimeAssumption DEF D!Init, HooksInv, D!TypeOK, Requests

\* One name goes in at the end and, when the window is full, one goes out at
\* the front.
LEMMA RememberedKeeps ==
  ASSUME HooksInv, NEW d \in Delivery, d \notin names, D!Remembered(d)
  PROVE  /\ window' \in Seq(Delivery) /\ Len(window') <= WindowLength
         /\ names' = InSeq(window') /\ d \in names' /\ Unique(window')
         /\ names \subseteq names' \cup forgotten'
         /\ forgotten \subseteq forgotten' /\ forgotten' \subseteq Delivery
         /\ names' \subseteq Delivery
  <1> USE RuntimeAssumption
  <1>0. /\ window \in Seq(Delivery) /\ Len(window) \in Nat /\ Len(window) <= WindowLength
        /\ names = InSeq(window) /\ d \notin InSeq(window) /\ Unique(window)
        /\ names \subseteq Delivery /\ forgotten \subseteq Delivery
    BY DEF HooksInv, D!TypeOK
  <1>1. CASE Len(window) # WindowLength
    <2>1. /\ window' = Append(window, d) /\ names' = names \cup {d} /\ forgotten' = forgotten
      BY <1>1 DEF D!Remembered
    <2>2. InSeq(window') = InSeq(window) \cup {d} /\ window' \in Seq(Delivery)
      BY <1>0, <2>1, AppendFacts
    <2> QED
      BY <1>0, <1>1, <2>1, <2>2, AppendFacts
  <1>2. CASE Len(window) = WindowLength
    <2>1. window # <<>>
      BY <1>0, <1>2
    <2>2. /\ window' = Append(Tail(window), d) /\ names' = (names \ {Head(window)}) \cup {d}
          /\ forgotten' = forgotten \cup {Head(window)}
      BY <1>2 DEF D!Remembered
    <2>3. /\ Tail(window) \in Seq(Delivery) /\ Unique(Tail(window))
          /\ InSeq(Tail(window)) = InSeq(window) \ {Head(window)}
          /\ Len(Tail(window)) = Len(window) - 1 /\ Head(window) \in Delivery
      BY <1>0, <2>1, TailFacts
    <2>4. PICK w \in Seq(Delivery) :
            /\ window' = Append(w, d) /\ InSeq(w) = InSeq(window) \ {Head(window)}
            /\ Unique(w) /\ Len(w) = Len(window) - 1 /\ d \notin InSeq(w)
      BY <1>0, <2>2, <2>3, Zenon
    <2>5. InSeq(window') = InSeq(w) \cup {d} /\ window' \in Seq(Delivery)
      BY <2>4, AppendFacts
    <2>6. Unique(window') /\ Len(window') = Len(window)
      BY <1>0, <2>4, AppendFacts
    <2> QED
      BY <1>0, <1>2, <2>2, <2>3, <2>4, <2>5, <2>6
  <1> QED
    BY <1>1, <1>2

LEMMA AcceptKeeps ==
  ASSUME HooksInv, NEW r \in Request, D!Accept(r)
  PROVE  HooksInv'
  <1>1. PICK d \in Delivery : request[r] = [at |-> "body", delivery |-> d]
    BY DEF D!Accept, HooksInv, Requests, D!Nothing
  <1>2. /\ d \notin names /\ D!Remembered(d)
        /\ handled' = [handled EXCEPT ![d] = @ + 1]
        /\ request' = [request EXCEPT ![r].at = "handling"]
    BY <1>1 DEF D!Accept
  <1>3. request' \in [Request -> Requests]
    BY <1>1, <1>2 DEF HooksInv, Requests
  <1>4. handled' \in [Delivery -> Nat]
    BY <1>2 DEF HooksInv, D!TypeOK
  <1>5. \A e \in Delivery : handled'[e] > 0 => e \in names' \cup forgotten'
    BY <1>2, RememberedKeeps DEF HooksInv, D!TypeOK
  <1>6. \A e \in Delivery \ forgotten' : handled'[e] <= 1
    BY <1>2, RememberedKeeps DEF HooksInv, D!TypeOK
  <1> QED
    BY <1>2, <1>3, <1>4, <1>5, <1>6, RememberedKeeps DEF HooksInv, D!TypeOK

LEMMA HooksStep == HooksInv /\ [D!Next]_(D!vars) => HooksInv'
  <1> SUFFICES ASSUME HooksInv, [D!Next]_(D!vars) PROVE HooksInv'
    OBVIOUS
  <1>1. ASSUME UNCHANGED <<window, names, handled, forgotten>>, request' \in [Request -> Requests]
        PROVE  HooksInv'
    BY <1>1 DEF HooksInv, D!TypeOK
  <1>2. ASSUME NEW r \in Request, NEW d \in Delivery, D!Receive(r, d) PROVE HooksInv'
    <2>1. request' \in [Request -> Requests]
      BY <1>2 DEF D!Receive, HooksInv, Requests
    <2> QED
      BY <1>1, <1>2, <2>1 DEF D!Receive
  <1>3. ASSUME NEW r \in Request, D!Refuse(r) \/ D!Repeated(r) \/ D!Handled(r) PROVE HooksInv'
    <2>1. request' \in [Request -> Requests]
      BY <1>3 DEF D!Refuse, D!Repeated, D!Handled, D!Answer, HooksInv, Requests
    <2> QED
      BY <1>1, <1>3, <2>1 DEF D!Refuse, D!Repeated, D!Handled
  <1>4. ASSUME NEW r \in Request, D!Accept(r) PROVE HooksInv'
    BY <1>4, AcceptKeeps
  <1>5. CASE D!Restart
    <2>1. window' \in Seq(Delivery) /\ Len(window') = 0
      BY <1>5 DEF D!Restart
    <2>2. Unique(window') /\ InSeq(window') = {}
      BY <1>5, NoNames DEF D!Restart
    <2>3. /\ names' = {} /\ forgotten' = {} /\ handled' = [d \in Delivery |-> 0]
          /\ request' = [r \in Request |-> D!Nothing]
      BY <1>5 DEF D!Restart
    <2> QED
      BY <2>1, <2>2, <2>3, RuntimeAssumption DEF HooksInv, D!TypeOK, Requests
  <1>6. CASE UNCHANGED D!vars
    BY <1>1, <1>6 DEF D!vars, HooksInv
  <1> QED
    BY <1>2, <1>3, <1>4, <1>5, <1>6 DEF D!Next

\* The set of names is the window, without a name in it twice, whatever comes,
\* is forgotten or is lost in a restart (_remember_delivery of service.py).
THEOREM DeliveriesInvariant == D!Spec => []HooksInv
  BY HooksInit, HooksStep, PTL DEF D!Spec

\* What the window being so says of what is handed on.
LEMMA HooksShow == HooksInv => D!TypeOK /\ D!HandedOnOnce
<1> SUFFICES ASSUME HooksInv PROVE D!TypeOK /\ D!HandedOnOnce
  OBVIOUS
<1>1. /\ D!TypeOK /\ names = InSeq(window) /\ Unique(window)
      /\ \A d \in Delivery \ forgotten : handled[d] <= 1
  BY DEF HooksInv
<1> QED
  BY <1>1 DEF D!HandedOnOnce, InSeq, Unique

-----------------------------------------------------------------------------
(* Bundles                                                                 *)

\* Among some of the numbers up to n one is the greatest.
LEMMA Greatest ==
  ASSUME NEW n \in Nat, NEW S \in SUBSET (1..n), S # {}
  PROVE  \E i \in S : \A j \in S : j <= i
<1> DEFINE Mirror == {n - i : i \in S}
           Less == {ss \in Nat \X Nat : ss[1] < ss[2]}
<1>1. Mirror \subseteq Nat
  <2> SUFFICES ASSUME NEW i \in S PROVE n - i \in Nat
    OBVIOUS
  <2>1. i \in Nat /\ i <= n
    OBVIOUS
  <2> QED
    BY <2>1
<1>2. Mirror # {}
  OBVIOUS
<1>3. IsWellFoundedOn(Less, Nat)
  BY NatLessThanWellFounded, Zenon DEF OpToRel
<1> HIDE DEF Less
<1>4. PICK x \in Mirror : \A y \in Mirror : ~(<<y, x>> \in Less)
  <2> HIDE DEF Mirror
  <2> QED
    BY <1>1, <1>2, <1>3, WFMin, Zenon
<1>5. \A y \in Mirror : x <= y
  <2> SUFFICES ASSUME NEW y \in Mirror, y < x PROVE FALSE
    BY <1>1
  <2>1. <<y, x>> \in Less
    BY <1>1 DEF Less
  <2> QED
    BY <1>4, <2>1
<1>6. PICK i \in S : x = n - i
  OBVIOUS
<1>7. \A j \in S : j <= i
  <2> SUFFICES ASSUME NEW j \in S PROVE j <= i
    OBVIOUS
  <2>1. n - j \in Mirror
    OBVIOUS
  <2>2. i \in Nat /\ j \in Nat
    OBVIOUS
  <2> HIDE DEF Mirror
  <2>3. n - i <= n - j
    BY <1>5, <1>6, <2>1
  <2> QED
    BY <2>2, <2>3
<1> QED
  BY <1>7

\* The history keeps the end of a sequence.
LEMMA KeptFacts ==
  ASSUME NEW s \in Seq(Version)
  PROVE  /\ B!Kept(s) \in Seq(Version) /\ Len(B!Kept(s)) <= Len(s) /\ Len(B!Kept(s)) <= HistoryLimit
         /\ Len(B!Kept(s)) = (IF Len(s) > HistoryLimit THEN HistoryLimit ELSE Len(s))
         /\ \A i \in 1 .. Len(B!Kept(s)) : B!Kept(s)[i] = s[i + (Len(s) - Len(B!Kept(s)))]
<1>1. Len(s) \in Nat /\ HistoryLimit \in Nat
  BY RuntimeAssumption
<1>2. CASE Len(s) <= HistoryLimit
  <2>1. B!Kept(s) = s
    BY <1>1, <1>2 DEF B!Kept
  <2> QED
    BY <1>1, <1>2, <2>1
<1>3. CASE Len(s) > HistoryLimit
  <2> DEFINE m == Len(s) - HistoryLimit + 1
  <2>1. B!Kept(s) = SubSeq(s, m, Len(s))
    BY <1>3 DEF B!Kept
  <2>2. m \in Int /\ m >= 1 /\ Len(s) - m + 1 = HistoryLimit
    BY <1>1, <1>3
  <2>3. \A i \in m .. Len(s) : s[i] \in Version
    BY <1>1, <2>2
  <2>4. /\ SubSeq(s, m, Len(s)) \in Seq(Version)
        /\ Len(SubSeq(s, m, Len(s))) = IF m <= Len(s) THEN Len(s) - m + 1 ELSE 0
        /\ \A i \in 1 .. Len(s) - m + 1 : SubSeq(s, m, Len(s))[i] = s[m + i - 1]
    BY <1>1, <2>2, <2>3, SubSeqProperties
  <2>5. Len(B!Kept(s)) = HistoryLimit
    BY <1>1, <1>3, <2>1, <2>2, <2>4
  <2>6. \A i \in 1 .. HistoryLimit : B!Kept(s)[i] = s[i + (Len(s) - HistoryLimit)]
    BY <1>1, <1>3, <2>1, <2>2, <2>4
  <2> QED
    BY <1>1, <1>3, <2>1, <2>4, <2>5, <2>6
<1> QED
  BY <1>1, <1>2, <1>3

\* What is dropped would be dropped later.
LEMMA KeptAppend ==
  ASSUME NEW s \in Seq(Version), NEW v \in Version
  PROVE  B!Kept(Append(B!Kept(s), v)) = B!Kept(Append(s, v))
<1> DEFINE k == B!Kept(s)
           a == Append(k, v)
           b == Append(s, v)
<1>1. HistoryLimit \in Nat /\ Len(s) \in Nat
  BY RuntimeAssumption
<1>2. /\ k \in Seq(Version) /\ Len(k) \in Nat
      /\ Len(k) = (IF Len(s) > HistoryLimit THEN HistoryLimit ELSE Len(s))
      /\ \A i \in 1 .. Len(k) : k[i] = s[i + (Len(s) - Len(k))]
  BY KeptFacts
<1>3. /\ a \in Seq(Version) /\ Len(a) = Len(k) + 1 /\ a[Len(k) + 1] = v
      /\ \A i \in 1 .. Len(k) : a[i] = k[i]
  BY <1>2
<1>4. /\ b \in Seq(Version) /\ Len(b) = Len(s) + 1 /\ b[Len(s) + 1] = v
      /\ \A i \in 1 .. Len(s) : b[i] = s[i]
  OBVIOUS
<1>5. /\ B!Kept(a) \in Seq(Version)
      /\ Len(B!Kept(a)) = (IF Len(a) > HistoryLimit THEN HistoryLimit ELSE Len(a))
      /\ \A i \in 1 .. Len(B!Kept(a)) : B!Kept(a)[i] = a[i + (Len(a) - Len(B!Kept(a)))]
  BY <1>3, KeptFacts
<1>6. /\ B!Kept(b) \in Seq(Version)
      /\ Len(B!Kept(b)) = (IF Len(b) > HistoryLimit THEN HistoryLimit ELSE Len(b))
      /\ \A i \in 1 .. Len(B!Kept(b)) : B!Kept(b)[i] = b[i + (Len(b) - Len(B!Kept(b)))]
  BY <1>4, KeptFacts
<1> HIDE DEF k, a, b
<1>7. PICK l \in Nat, m \in Nat, n \in Nat :
        /\ l = Len(s) /\ m = Len(k) /\ n = Len(B!Kept(a)) /\ n = Len(B!Kept(b))
        /\ n <= m + 1 /\ m <= l
  BY <1>1, <1>2, <1>3, <1>4, <1>5, <1>6
<1>8. \A i \in 1 .. Len(B!Kept(a)) : B!Kept(a)[i] = B!Kept(b)[i]
  <2> SUFFICES ASSUME NEW i \in 1 .. n PROVE B!Kept(a)[i] = B!Kept(b)[i]
    BY <1>7
  <2> DEFINE p == i + ((m + 1) - n)
             q == i + ((l + 1) - n)
  <2>1. B!Kept(a)[i] = a[p]
    BY <1>3, <1>5, <1>7
  <2>2. B!Kept(b)[i] = b[q]
    BY <1>4, <1>6, <1>7
  <2>3. p \in Nat /\ q \in Nat /\ p <= m + 1 /\ q = p + (l - m) /\ p >= 1
    BY <1>7
  <2> HIDE DEF p, q
  <2>4. CASE p = m + 1
    <3>1. q = l + 1
      BY <2>3, <2>4
    <3> QED
      BY <1>3, <1>4, <1>7, <2>1, <2>2, <2>4, <3>1
  <2>5. CASE p # m + 1
    <3>1. p \in 1 .. m /\ q \in 1 .. l
      BY <1>7, <2>3, <2>5
    <3>2. a[p] = k[p]
      BY <1>3, <1>7, <3>1
    <3>3. k[p] = s[q]
      BY <1>2, <1>7, <2>3, <3>1
    <3>4. b[q] = s[q]
      BY <1>4, <1>7, <3>1
    <3> QED
      BY <2>1, <2>2, <3>2, <3>3, <3>4
  <2> QED
    BY <2>4, <2>5
<1>9. B!Kept(a) = B!Kept(b)
  BY <1>5, <1>6, <1>7, <1>8, SeqEqual
<1> QED
  BY <1>9 DEF a, b, k

-----------------------------------------------------------------------------
(* What operators select.                                                  *)

Histories == {h \in Seq(Version) : Len(h) <= HistoryLimit}
Recorded == {"recorded", "marker_written"}
Preparing == {"read", "history_written"}
OperatorCommands ==
  [at : {"free", "build"} \union Preparing \union Recorded,
   version : Version \union {B!None}, history : Histories]

SelectionTyped ==
  /\ content \in Version /\ bundles \in [Version -> {"absent", "whole", "damaged"}]
  /\ history \in Histories /\ marker \in Version \union {B!None}
  /\ temporary \in [history : Histories \union {B!None}, marker : Version \union {B!None}]
  /\ command \in [Operator -> OperatorCommands]
  /\ \A o \in Operator : B!Activating(o) => command[o].version \in Version
  /\ past \in Seq(Version) /\ cut \in BOOLEAN

\* Until an activation is cut one goes on at a time.  The marker is what was
\* active last, and the history ends with what was, or is about to be, active.
Straight ==
  /\ \A o, p \in Operator : B!Activating(o) /\ B!Activating(p) => o = p
  /\ Len(past) > 0 => marker = past[Len(past)]
  /\ (\A o \in Operator : command[o].at \notin Recorded) => history = B!Kept(past)
  /\ \A o \in Operator :
       /\ command[o].at \in Preparing =>
            command[o].history = B!Kept(Append(past, command[o].version))
       /\ command[o].at = "history_written" => temporary.history = command[o].history
       /\ command[o].at \in Recorded => history = B!Kept(Append(past, command[o].version))
       /\ command[o].at = "marker_written" => temporary.marker = command[o].version

SelectionInv == SelectionTyped /\ (~cut => Straight)

LEMMA KeptIsHistory ==
  ASSUME NEW s \in Seq(Version), NEW v \in Version
  PROVE  /\ B!Kept(s) \in Histories
         /\ Append(s, v) \in Seq(Version) /\ B!Kept(Append(s, v)) \in Histories
<1>1. Append(s, v) \in Seq(Version)
  OBVIOUS
<1> QED
  BY <1>1, KeptFacts DEF Histories

-----------------------------------------------------------------------------
(* A history is the end of what was active, with or without the bundle that *)
(* is about to be.                                                         *)

EndOf(h, s, d) ==
  /\ d \in Nat /\ d + Len(h) \in {Len(s), Len(s) + 1}
  /\ \A i \in 1 .. Len(h) - 1 : i + d \in 1 .. Len(s) /\ h[i] = s[i + d]

LEMMA KeptIsEnd ==
  ASSUME NEW s \in Seq(Version)
  PROVE  \E d \in Nat : EndOf(B!Kept(s), s, d)
<1>1. PICK k \in Seq(Version) :
        /\ k = B!Kept(s) /\ Len(k) <= Len(s)
        /\ \A i \in 1 .. Len(k) : k[i] = s[i + (Len(s) - Len(k))]
  BY KeptFacts
<1>2. PICK n \in Nat, l \in Nat : n = Len(k) /\ l = Len(s)
  OBVIOUS
<1>3. l - n \in Nat
  BY <1>1, <1>2
<1>4. \A i \in 1 .. n - 1 : i + (l - n) \in 1 .. l /\ i \in 1 .. n
  BY <1>3
<1>5. EndOf(k, s, l - n)
  BY <1>1, <1>2, <1>3, <1>4 DEF EndOf
<1> QED
  BY <1>1, <1>3, <1>5

LEMMA KeptAppendIsEnd ==
  ASSUME NEW s \in Seq(Version), NEW v \in Version
  PROVE  \E d \in Nat : EndOf(B!Kept(Append(s, v)), s, d)
<1>a. /\ Append(s, v) \in Seq(Version) /\ Len(Append(s, v)) = Len(s) + 1
      /\ \A i \in 1 .. Len(s) : Append(s, v)[i] = s[i]
  OBVIOUS
<1>1. PICK q \in Seq(Version) :
        q = Append(s, v) /\ Len(q) = Len(s) + 1 /\ \A i \in 1 .. Len(s) : q[i] = s[i]
  BY <1>a, Zenon
<1>2. PICK k \in Seq(Version) :
        /\ k = B!Kept(q) /\ Len(k) <= Len(q)
        /\ \A i \in 1 .. Len(k) : k[i] = q[i + (Len(q) - Len(k))]
  BY KeptFacts
<1>3. PICK n \in Nat, l \in Nat : n = Len(k) /\ l = Len(s)
  OBVIOUS
<1>4. l + 1 - n \in Nat
  BY <1>1, <1>2, <1>3
<1>5. \A i \in 1 .. n - 1 : i + (l + 1 - n) \in 1 .. l /\ i \in 1 .. n
  BY <1>4
<1>6. EndOf(k, s, l + 1 - n)
  BY <1>1, <1>2, <1>3, <1>4, <1>5 DEF EndOf
<1> QED
  BY <1>1, <1>2, <1>4, <1>6

LastOf(h, S, m) ==
  /\ m \in 1 .. Len(h) - 1 /\ h[m] \in S
  /\ \A j \in 1 .. Len(h) - 1 : h[j] \in S => j <= m
LastBefore(s, S, x) ==
  \E i \in 1 .. Len(s) - 1 : s[i] = x /\ \A j \in i + 1 .. Len(s) : s[j] \notin S

\* The last in a history that is in S was the last of all in S.
LEMMA LastInHistory ==
  ASSUME NEW h \in Seq(Version), NEW s \in Seq(Version), NEW d, EndOf(h, s, d),
         NEW S, NEW m, LastOf(h, S, m), Len(s) > 0 => s[Len(s)] \notin S
  PROVE  LastBefore(s, S, h[m])
<1> USE DEF LastOf
<1>d. d \in Nat /\ m \in 1 .. Len(h) - 1 /\ h[m] \in S
  BY DEF EndOf
<1>a. Len(h) \in Nat /\ Len(s) \in Nat
  OBVIOUS
<1>1. PICK n \in Nat, l \in Nat : n = Len(h) /\ l = Len(s)
  BY <1>a, Zenon
<1>2. d + n \in {l, l + 1} /\ \A i \in 1 .. n - 1 : i + d \in 1 .. l /\ h[i] = s[i + d]
  BY <1>1 DEF EndOf
<1>3. m \in 1 .. n - 1 /\ m + d \in 1 .. l /\ s[m + d] = h[m]
  BY <1>1, <1>2, <1>d
<1>4. m + d # l
  BY <1>1, <1>3
<1>5. ASSUME NEW j \in m + d + 1 .. l, s[j] \in S PROVE FALSE
  <2>1. j # l
    BY <1>1, <1>3, <1>5, <1>d
  <2>2. PICK k \in 1 .. n - 1 : k + d = j /\ k > m
    <3>1. j - d \in 1 .. n - 1 /\ j - d > m /\ (j - d) + d = j
      BY <1>2, <1>3, <2>1, <1>d
    <3> QED
      BY <3>1
  <2>3. h[k] = s[j]
    BY <1>2, <2>2
  <2>4. k <= m
    BY <1>1, <1>5, <2>3
  <2> QED
    BY <1>3, <2>2, <2>4
<1>6. m + d \in 1 .. l - 1
  BY <1>3, <1>4
<1> QED
  BY <1>1, <1>3, <1>5, <1>6 DEF LastBefore

LEMMA TargetIsVersion ==
  ASSUME SelectionTyped, B!Target # B!None
  PROVE  B!Target \in Version
<1> DEFINE others == {i \in 1 .. Len(history) - 1 : history[i] \in B!Listed \ {marker}}
<1>1. B!Target = IF others = {} THEN B!None
               ELSE history[CHOOSE i \in others : \A j \in others : j <= i]
  BY DEF B!Target
<1>2. history \in Seq(Version)
  BY DEF SelectionTyped, Histories
<1>3. others \in SUBSET (1 .. Len(history)) /\ Len(history) \in Nat
  BY <1>2
<1>4. others # {} /\ B!Target = history[CHOOSE i \in others : \A j \in others : j <= i]
  BY <1>1
<1> HIDE DEF others
<1>5. PICK m \in others : B!Target = history[m]
  <2>1. \E i \in others : \A j \in others : j <= i
    BY <1>4, <1>3, Greatest
  <2> QED
    BY <1>4, <2>1, Zenon
<1> QED
  BY <1>2, <1>3, <1>5

\* A rollback finds what was active last before and is still whole.
LEMMA TargetIsLast ==
  ASSUME SelectionTyped, Straight, B!Target # B!None
  PROVE  \E i \in 1 .. Len(past) - 1 :
           /\ past[i] = B!Target
           /\ \A j \in i + 1 .. Len(past) : past[j] \notin B!Listed \ {marker}
<1> DEFINE others == {i \in 1 .. Len(history) - 1 : history[i] \in B!Listed \ {marker}}
<1>1. B!Target = IF others = {} THEN B!None
               ELSE history[CHOOSE i \in others : \A j \in others : j <= i]
  BY DEF B!Target
<1>2. history \in Seq(Version) /\ past \in Seq(Version)
  BY DEF SelectionTyped, Histories
<1>3. others \in SUBSET (1 .. Len(history)) /\ Len(history) \in Nat
  BY <1>2
<1>4. others # {} /\ B!Target = history[CHOOSE i \in others : \A j \in others : j <= i]
  BY <1>1
<1>5. PICK m \in others : B!Target = history[m] /\ \A j \in others : j <= m
  <2>1. \E i \in others : \A j \in others : j <= i
    <3> HIDE DEF others
    <3> QED
      BY <1>4, <1>3, Greatest
  <2> HIDE DEF others
  <2> QED
    BY <1>4, <2>1, Zenon
<1>6. /\ m \in 1 .. Len(history) - 1 /\ history[m] \in B!Listed \ {marker}
      /\ \A j \in 1 .. Len(history) - 1 : history[j] \in B!Listed \ {marker} => j <= m
  BY <1>5, Zenon
<1>7. \E d \in Nat : EndOf(history, past, d)
  <2>1. CASE \A o \in Operator : command[o].at \notin Recorded
    BY <1>2, <2>1, KeptIsEnd DEF Straight
  <2>2. CASE \E o \in Operator : command[o].at \in Recorded
    <3>1. PICK v \in Version : history = B!Kept(Append(past, v))
      BY <2>2 DEF Straight, SelectionTyped, B!Activating, Recorded
    <3> QED
      BY <1>2, <3>1, KeptAppendIsEnd
  <2> QED
    BY <2>1, <2>2
<1>8. Len(past) > 0 => past[Len(past)] \notin B!Listed \ {marker}
  BY DEF Straight
<1>9. PICK d \in Nat : EndOf(history, past, d)
  BY <1>7
<1>10. PICK S : S = B!Listed \ {marker}
  OBVIOUS
<1> HIDE DEF others
<1>11. LastOf(history, S, m) /\ (Len(past) > 0 => past[Len(past)] \notin S)
  BY <1>6, <1>8, <1>10, Zenon DEF LastOf
<1>12. LastBefore(past, S, history[m])
  BY <1>2, <1>9, <1>11, LastInHistory
<1> QED
  BY <1>5, <1>10, <1>12 DEF LastBefore

-----------------------------------------------------------------------------
LEMMA SelectionInit == B!Init => SelectionInv
<1> SUFFICES ASSUME B!Init PROVE SelectionInv
  OBVIOUS
<1>1. <<>> \in Histories /\ <<>> \in Seq(Version) /\ Len(<<>>) = 0 /\ B!Kept(<<>>) = <<>>
  BY RuntimeAssumption DEF Histories, B!Kept
<1>2. B!Free \in OperatorCommands
  BY <1>1 DEF B!Free, OperatorCommands
<1>3. SelectionTyped
  BY <1>1, <1>2 DEF B!Init, SelectionTyped, B!Activating, B!Free, B!None
<1>4. Straight
  BY <1>1 DEF B!Init, Straight, B!Activating, B!Free, Recorded, Preparing
<1> QED
  BY <1>3, <1>4 DEF SelectionInv

\* A command that goes on, and one that returns.
LEMMA CommandGoes ==
  ASSUME SelectionTyped, NEW o \in Operator, NEW w \in Preparing \union Recorded,
         B!Activating(o), B!Goes(o, w)
  PROVE  /\ command' \in [Operator -> OperatorCommands]
         /\ command'[o].at = w /\ command'[o].version = command[o].version
         /\ command'[o].history = command[o].history
         /\ \A p \in Operator \ {o} : command'[p] = command[p]
         /\ \A p \in Operator : B!Activating(p)' <=> B!Activating(p)
<1>1. command[o] \in OperatorCommands
  BY DEF SelectionTyped
<1>2. PICK c : c = [command[o] EXCEPT !.at = w]
  OBVIOUS
<1>3. c \in OperatorCommands /\ c.at = w /\ c.version = command[o].version
      /\ c.history = command[o].history
  BY <1>1, <1>2 DEF OperatorCommands
<1>4. command' = [command EXCEPT ![o] = c]
  BY <1>2 DEF B!Goes
<1> QED
  BY <1>3, <1>4 DEF SelectionTyped, B!Activating, Preparing, Recorded

LEMMA CommandReturns ==
  ASSUME SelectionTyped, NEW o \in Operator, B!Returns(o)
  PROVE  /\ command' \in [Operator -> OperatorCommands]
         /\ ~B!Activating(o)' /\ command'[o].at = "free"
         /\ \A p \in Operator \ {o} : command'[p] = command[p]
<1>1. B!Free \in OperatorCommands
  BY RuntimeAssumption DEF B!Free, OperatorCommands, Histories
<1> QED
  BY <1>1 DEF B!Returns, SelectionTyped, B!Activating, B!Free

LEMMA CommandChosen ==
  ASSUME SelectionInv, NEW o \in Operator, NEW v \in Version, B!Chosen(o, v), B!At(o, "free"),
         UNCHANGED <<content, B!files>>
  PROVE  SelectionInv'
<1>1. /\ command' = [command EXCEPT ![o] =
                   [at |-> "read", version |-> v, history |-> B!Kept(Append(history, v))]]
      /\ cut' = (cut \/ \E other \in Operator \ {o} : B!Activating(other))
      /\ past' = IF cut' THEN <<>> ELSE past
  BY DEF B!Chosen, B!CutIf
<1>2. history \in Seq(Version) /\ past \in Seq(Version)
  BY DEF SelectionInv, SelectionTyped, Histories
<1>3. [at |-> "read", version |-> v, history |-> B!Kept(Append(history, v))] \in OperatorCommands
  BY <1>2, KeptIsHistory DEF OperatorCommands, Preparing
<1>4. SelectionTyped'
  BY <1>1, <1>2, <1>3 DEF SelectionInv, SelectionTyped, B!files, B!Activating
<1>5. ASSUME ~cut' PROVE Straight'
  <2>1. /\ Straight /\ past' = past
        /\ \A p \in Operator : ~B!Activating(p)
    BY <1>1, <1>5 DEF SelectionInv, B!At, B!Activating
  <2>2. history = B!Kept(past)
    BY <2>1 DEF Straight, B!Activating, Recorded
  <2>3. B!Kept(Append(history, v)) = B!Kept(Append(past, v))
    BY <1>2, <2>2, KeptAppend
  <2>4. /\ command'[o] = [at |-> "read", version |-> v, history |-> B!Kept(Append(past, v))]
        /\ \A p \in Operator \ {o} : command'[p] = command[p]
    BY <1>1, <2>3 DEF SelectionInv, SelectionTyped
  <2> QED
    BY <2>1, <2>2, <2>4 DEF Straight, B!Activating, Preparing, Recorded, B!files
<1> QED
  BY <1>4, <1>5 DEF SelectionInv

\* The other activations, of which there is none unless one was cut, are where
\* they were.
LEMMA SelectionNext == SelectionInv /\ [B!Next]_(B!vars) => SelectionInv'
<1> SUFFICES ASSUME SelectionInv, [B!Next]_(B!vars) PROVE SelectionInv'
  OBVIOUS
<1>a. SelectionTyped /\ history \in Histories /\ history \in Seq(Version) /\ past \in Seq(Version)
  BY DEF SelectionInv, SelectionTyped, Histories
\* What leaves the files that select, and the activations, alone.
<1>1. ASSUME UNCHANGED <<history, marker, temporary, past, cut>>,
             content' \in Version, bundles' \in [Version -> {"absent", "whole", "damaged"}],
             command' \in [Operator -> OperatorCommands],
             \A p \in Operator :
               command'[p] = command[p] \/ (~B!Activating(p) /\ ~B!Activating(p)')
      PROVE  SelectionInv'
  <2>1. SelectionTyped'
    BY <1>1, <1>a DEF SelectionTyped, B!Activating
  <2>2. ASSUME Straight PROVE Straight'
    BY <1>1, <2>2 DEF Straight, B!Activating, Preparing, Recorded
  <2> QED
    BY <1>1, <2>1, <2>2 DEF SelectionInv
<1>2. ASSUME NEW v \in Version, B!Edit(v) PROVE SelectionInv'
  BY <1>1, <1>2, <1>a DEF B!Edit, B!files, SelectionTyped
<1>3. ASSUME NEW v \in Version, B!Damage(v) PROVE SelectionInv'
  BY <1>1, <1>3, <1>a DEF B!Damage, SelectionTyped
<1>4. ASSUME NEW o \in Operator, B!Build(o) PROVE SelectionInv'
  <2>1. [B!Free EXCEPT !.at = "build", !.version = content] \in OperatorCommands
    <3>1. <<>> \in Histories /\ content \in Version
      BY <1>a, RuntimeAssumption DEF Histories, SelectionTyped
    <3>2. B!Free \in OperatorCommands
      BY <3>1 DEF B!Free, OperatorCommands
    <3> QED
      BY <3>1, <3>2 DEF OperatorCommands
  <2>2. [B!Free EXCEPT !.at = "build", !.version = content].at = "build"
    BY DEF B!Free
  <2>3. PICK c \in OperatorCommands : c.at = "build" /\ command' = [command EXCEPT ![o] = c]
    BY <1>4, <2>1, <2>2 DEF B!Build
  <2>4. /\ command' \in [Operator -> OperatorCommands]
        /\ \A p \in Operator :
             command'[p] = command[p] \/ (~B!Activating(p) /\ ~B!Activating(p)')
    BY <1>4, <1>a, <2>3 DEF B!Build, B!At, B!Activating, SelectionTyped
  <2> QED
    BY <1>1, <1>4, <1>a, <2>4 DEF B!Build, B!files, SelectionTyped
<1>5. ASSUME NEW o \in Operator, B!Built(o) PROVE SelectionInv'
  <2>1. /\ command' \in [Operator -> OperatorCommands]
        /\ \A p \in Operator :
             command'[p] = command[p] \/ (~B!Activating(p) /\ ~B!Activating(p)')
    BY <1>5, <1>a, CommandReturns DEF B!Built, B!At, B!Activating
  <2>2. bundles' \in [Version -> {"absent", "whole", "damaged"}]
    BY <1>5, <1>a DEF B!Built, SelectionTyped
  <2> QED
    BY <1>1, <1>5, <1>a, <2>1, <2>2 DEF B!Built, SelectionTyped
<1>6. ASSUME NEW o \in Operator, NEW v \in Version, B!Activate(o, v) PROVE SelectionInv'
  BY <1>6, CommandChosen DEF B!Activate
<1>7. ASSUME NEW o \in Operator, B!Rollback(o) PROVE SelectionInv'
  <2>1. B!Target \in Version
    BY <1>7, <1>a, TargetIsVersion DEF B!Rollback
  <2> QED
    BY <1>7, <2>1, CommandChosen DEF B!Rollback
<1>8. ASSUME NEW o \in Operator, B!WriteHistory(o) PROVE SelectionInv'
  <2>0. command[o].at = "read" /\ B!Activating(o)
    BY <1>8 DEF B!WriteHistory, B!At, B!Activating
  <2>1. /\ command' \in [Operator -> OperatorCommands]
        /\ command'[o].at = "history_written" /\ command'[o].version = command[o].version
        /\ command'[o].history = command[o].history
        /\ \A p \in Operator \ {o} : command'[p] = command[p]
        /\ \A p \in Operator : B!Activating(p)' <=> B!Activating(p)
    BY <1>8, <1>a, <2>0, CommandGoes DEF B!WriteHistory, Preparing
  <2>2. SelectionTyped'
    BY <1>8, <1>a, <2>1 DEF B!WriteHistory, SelectionTyped, OperatorCommands
  <2>3. ASSUME Straight PROVE Straight'
    BY <1>8, <2>0, <2>1, <2>3, <1>a
       DEF Straight, B!WriteHistory, Preparing, Recorded, SelectionTyped, B!Activating
  <2> QED
    BY <1>8, <2>2, <2>3 DEF SelectionInv, B!WriteHistory
<1>9. ASSUME NEW o \in Operator, B!MoveHistory(o) PROVE SelectionInv'
  <2>0. command[o].at = "history_written" /\ B!Activating(o) /\ temporary.history \in Histories
    BY <1>9, <1>a DEF B!MoveHistory, B!At, B!Activating, SelectionTyped
  <2>1. /\ command' \in [Operator -> OperatorCommands]
        /\ command'[o].at = "recorded" /\ command'[o].version = command[o].version
        /\ command'[o].history = command[o].history
        /\ \A p \in Operator \ {o} : command'[p] = command[p]
        /\ \A p \in Operator : B!Activating(p)' <=> B!Activating(p)
    BY <1>9, <1>a, <2>0, CommandGoes DEF B!MoveHistory, Recorded
  <2>2. SelectionTyped'
    BY <1>9, <1>a, <2>0, <2>1 DEF B!MoveHistory, SelectionTyped
  <2>3. ASSUME Straight PROVE Straight'
    <3>1. history' = B!Kept(Append(past, command[o].version))
      BY <1>9, <2>0, <2>3 DEF B!MoveHistory, Straight, Preparing
    <3>2. \A p \in Operator : B!Activating(p)' => p = o
      BY <2>0, <2>1, <2>3 DEF Straight
    <3> QED
      BY <1>9, <2>0, <2>1, <2>3, <3>1, <3>2
         DEF Straight, B!MoveHistory, Preparing, Recorded, B!Activating
  <2> QED
    BY <1>9, <2>2, <2>3 DEF SelectionInv, B!MoveHistory
<1>10. ASSUME NEW o \in Operator, B!WriteMarker(o) PROVE SelectionInv'
  <2>0. command[o].at = "recorded" /\ B!Activating(o)
    BY <1>10 DEF B!WriteMarker, B!At, B!Activating
  <2>1. /\ command' \in [Operator -> OperatorCommands]
        /\ command'[o].at = "marker_written" /\ command'[o].version = command[o].version
        /\ command'[o].history = command[o].history
        /\ \A p \in Operator \ {o} : command'[p] = command[p]
        /\ \A p \in Operator : B!Activating(p)' <=> B!Activating(p)
    BY <1>10, <1>a, <2>0, CommandGoes DEF B!WriteMarker, Recorded
  <2>2. SelectionTyped'
    BY <1>10, <1>a, <2>0, <2>1 DEF B!WriteMarker, SelectionTyped
  <2>3. ASSUME Straight PROVE Straight'
    <3>2. \A p \in Operator : B!Activating(p)' => p = o
      BY <2>0, <2>1, <2>3 DEF Straight
    <3> QED
      BY <1>10, <1>a, <2>0, <2>1, <2>3, <3>2
         DEF Straight, B!WriteMarker, Preparing, Recorded, B!Activating, SelectionTyped
  <2> QED
    BY <1>10, <2>2, <2>3 DEF SelectionInv, B!WriteMarker
<1>11. ASSUME NEW o \in Operator, B!MoveMarker(o) PROVE SelectionInv'
  <2>0. command[o].at = "marker_written" /\ B!Activating(o) /\ temporary.marker \in Version
    BY <1>11, <1>a DEF B!MoveMarker, B!At, B!Activating, SelectionTyped
  <2>1. /\ command' \in [Operator -> OperatorCommands]
        /\ ~B!Activating(o)' /\ command'[o].at = "free"
        /\ \A p \in Operator \ {o} : command'[p] = command[p]
    BY <1>11, <1>a, CommandReturns DEF B!MoveMarker
  <2>2. SelectionTyped'
    BY <1>11, <1>a, <2>0, <2>1 DEF B!MoveMarker, SelectionTyped, B!Activating
  <2>3. ASSUME ~cut, Straight PROVE Straight'
    <3>1. history = B!Kept(Append(past, temporary.marker))
      BY <2>0, <2>3 DEF Straight, Recorded
    <3>2. past' = Append(past, temporary.marker) /\ marker' = temporary.marker /\ history' = history
      BY <1>11, <2>3 DEF B!MoveMarker
    <3>3. \A p \in Operator : ~B!Activating(p)'
      BY <2>0, <2>1, <2>3 DEF Straight, B!Activating
    <3>4. past'[Len(past')] = marker'
      BY <1>a, <2>0, <3>2
    <3> QED
      BY <3>1, <3>2, <3>3, <3>4 DEF Straight, Preparing, Recorded, B!Activating
  <2> QED
    BY <1>11, <2>2, <2>3 DEF SelectionInv, B!MoveMarker
<1>12. ASSUME NEW o \in Operator, B!Fails(o) PROVE SelectionInv'
  <2>1. /\ command' \in [Operator -> OperatorCommands]
        /\ ~B!Activating(o)' /\ command'[o].at = "free"
        /\ \A p \in Operator \ {o} : command'[p] = command[p]
    BY <1>12, <1>a, CommandReturns DEF B!Fails
  <2>2. cut' = (cut \/ B!Activating(o)) /\ past' = IF cut' THEN <<>> ELSE past
    BY <1>12 DEF B!Fails, B!CutIf
  <2>3. SelectionTyped'
    BY <1>12, <1>a, <2>1, <2>2 DEF B!Fails, SelectionTyped, B!files, B!Activating
  <2>4. ASSUME ~cut', Straight PROVE Straight'
    BY <1>12, <2>1, <2>2, <2>4 DEF B!Fails, Straight, B!files, B!Activating, Preparing, Recorded
  <2> QED
    BY <1>12, <2>2, <2>3, <2>4 DEF SelectionInv
<1>13. CASE UNCHANGED B!vars
  BY <1>1, <1>13, <1>a DEF B!vars, B!files, SelectionTyped
<1> QED
  BY <1>2, <1>3, <1>4, <1>5, <1>6, <1>7, <1>8, <1>9, <1>10, <1>11, <1>12, <1>13 DEF B!Next

\* Until an activation is cut short, the history is the end of what was active
\* and the marker is its last, at every point of every command (bundles.py).
THEOREM SelectionInvariant == B!Spec => []SelectionInv
  BY SelectionInit, SelectionNext, PTL DEF B!Spec

\* What the history being so says of a rollback.
LEMMA SelectionShows == SelectionInv => B!TypeOK /\ B!RollbackGoesBack
<1>1. SelectionInv => B!TypeOK
  BY DEF SelectionInv, SelectionTyped, B!TypeOK, Histories
<1>2. SelectionInv => B!RollbackGoesBack
  BY TargetIsLast DEF SelectionInv, B!RollbackGoesBack
<1> QED
  BY <1>1, <1>2

-----------------------------------------------------------------------------
(* The take-over of older files                                            *)

Imports == M!Kinds \union {"sdk"}
Databases ==
  [marked : SUBSET (Imports \union {"catalog"}), rows : [Imports -> Nat],
   tasks : [M!Task -> 0 .. MaxWork + 1],
   workspaces : [form : {"absent", "old", "new"}, rows : SUBSET M!Task, aside : SUBSET M!Task]]
Transaction == {"rows", "upgrade", "renamed", "created", "copied"}
Plain == {"down", "sessions", "schema", "columns", "json", "legacy"}
Places == Transaction \union Plain \union {"json_import", "legacy_import", "snapshots", "ready"}
Aside == {"renamed", "created"}

\* What a kind of rows is imported from.
From(k) == M!Origin(IF k = "sdk" THEN "sessions.sqlite3" ELSE k, "sessions.sqlite3")

\* A kind that was imported is not imported again, and could be read.
Accounted(d) ==
  \A k \in Imports :
    /\ d.rows[k] = IF k \in d.marked \ began.marked /\ From(k) = "good" THEN 1 ELSE 0
    /\ k \in d.marked \ began.marked => From(k) # "bad"
    /\ k \in began.marked => k \in d.marked

\* The catalog is empty until it is marked, and tasks.json has its say.
Catalogued(d) ==
  /\ ~M!Marked(d) => \A t \in M!Task : d.tasks[t] = 0
  /\ M!Marked(d) /\ source["tasks.json"] # "absent" => d.tasks["a"] > 0
  /\ source["tasks.json"] # "absent" => d.tasks["c"] = 0

Sound(d) == d \in Databases /\ Accounted(d) /\ Catalogued(d)

\* Where a process is in its constructor, and what it holds there.
Placed(w, S, d) ==
  /\ w \in Places /\ S \in SUBSET (M!Task \union M!Kinds)
  /\ w \in Plain \/ (w \in Transaction /\ w # "rows") => S = {}
  /\ w = "json_import" => S = M!InJson /\ source["tasks.json"] # "absent"
  /\ w = "legacy_import" => S \subseteq M!InLegacy
  /\ w \in {"legacy", "legacy_import"} => M!Marked(d) \/ source["tasks.json"] = "absent"
  /\ w \in {"snapshots", "ready"} => M!Marked(d)

PlaceOK(p) == Placed(at[p], found[p], db) /\ (at[p] \in Transaction => writer = p)

SourcesTyped ==
  /\ source \in [M!Sources -> {"absent", "good", "bad", "old"}]
  /\ \A f \in M!Sources : source[f] = "old" => f = "runtime.sqlite3"
  /\ source["runtime.sqlite3"] \in {"absent", "old"}
  /\ began \in Databases

\* A transaction that moves the table of workspaces aside has its rows there.
Swapped == \E p \in Process : at[p] \in Aside
TableKept ==
  /\ began.workspaces.rows \subseteq db.workspaces.rows
  /\ began.workspaces.rows \subseteq
       IF Swapped THEN draft.workspaces.aside ELSE draft.workspaces.rows

MigrationInv ==
  /\ SourcesTyped
  /\ Sound(db) /\ Sound(draft)
  /\ draft.tasks = db.tasks /\ (M!Marked(draft) <=> M!Marked(db))
  /\ TableKept
  /\ writer \in Process \union {M!Nobody}
  /\ at \in [Process -> Places] /\ found \in [Process -> SUBSET (M!Task \union M!Kinds)]
  /\ \A p \in Process : PlaceOK(p)

LEMMA MigrationInit == M!Init => MigrationInv
<1> SUFFICES ASSUME M!Init PROVE MigrationInv
  OBVIOUS
<1> USE DEF Imports
<1>1. /\ db \in Databases /\ db = draft /\ db = began
      /\ \A k \in Imports : db.rows[k] = 0
      /\ \/ M!Marked(db) /\ db.tasks = [t \in M!Task |-> IF t = "a" THEN 1 ELSE 0]
         \/ ~M!Marked(db) /\ db.tasks = [t \in M!Task |-> 0]
  <2>1. 0 \in 0 .. MaxWork + 1 /\ 1 \in 0 .. MaxWork + 1
    BY RuntimeAssumption
  <2>2. CASE source["runtime.sqlite3"] = "old"
    <3>1. db = [marked |-> {"catalog"} \union M!Kinds, rows |-> [k \in M!Kinds \union {"sdk"} |-> 0],
                tasks |-> [t \in M!Task |-> IF t = "a" THEN 1 ELSE 0],
                workspaces |-> [form |-> "old", rows |-> {"a"}, aside |-> {}]]
      BY <2>2 DEF M!Init, M!Table
    <3> QED
      BY <2>1, <3>1 DEF M!Init, Databases, M!Marked, M!Task
  <2>3. CASE source["runtime.sqlite3"] # "old"
    <3>1. db = [marked |-> {}, rows |-> [k \in M!Kinds \union {"sdk"} |-> 0],
                tasks |-> [t \in M!Task |-> 0],
                workspaces |-> [form |-> "absent", rows |-> {}, aside |-> {}]]
      BY <2>3 DEF M!Init, M!Table
    <3> QED
      BY <2>1, <3>1 DEF M!Init, Databases, M!Marked, M!Task
  <2> QED
    BY <2>2, <2>3
<1>2. SourcesTyped
  BY <1>1, RuntimeAssumption DEF M!Init, SourcesTyped
<1>3. Accounted(db) /\ Catalogued(db)
  BY <1>1 DEF Accounted, Catalogued, M!Task
<1>4. /\ at = [p \in Process |-> "down"] /\ found = [p \in Process |-> {}] /\ writer = M!Nobody
  BY DEF M!Init
<1>5. TableKept
  BY <1>1, <1>4 DEF TableKept, Swapped, Aside
<1>6. \A p \in Process : PlaceOK(p)
  BY <1>4 DEF PlaceOK, Placed, Places, Transaction, Plain
<1> QED
  BY <1>1, <1>2, <1>3, <1>4, <1>5, <1>6 DEF MigrationInv, Sound, Places, Plain

-----------------------------------------------------------------------------
(* Databases                                                               *)

LEMMA ImportedSound ==
  ASSUME NEW d, Sound(d), NEW k \in Imports, k \notin d.marked, From(k) # "bad"
  PROVE  /\ Sound(M!Imported(d, k, From(k)))
         /\ M!Imported(d, k, From(k)).tasks = d.tasks
         /\ M!Imported(d, k, From(k)).workspaces = d.workspaces
         /\ M!Marked(M!Imported(d, k, From(k))) <=> M!Marked(d)
<1> DEFINE n == IF From(k) = "good" THEN 1 ELSE 0
<1>0. d \in Databases /\ Accounted(d) /\ Catalogued(d)
  BY DEF Sound
<1>1. d.rows[k] = 0
  BY <1>0 DEF Accounted
<1>2. PICK e : e = M!Imported(d, k, From(k))
  OBVIOUS
<1>3. e = [d EXCEPT !.marked = @ \union {k}, !.rows[k] = @ + n]
  BY <1>2 DEF M!Imported
<1>4. n \in {0, 1} /\ k \in {"messages", "history", "sdk"}
  BY DEF Imports, M!Kinds
<1>5. /\ e \in Databases /\ e.marked = d.marked \union {k} /\ e.tasks = d.tasks
      /\ e.workspaces = d.workspaces
      /\ e.rows = [d.rows EXCEPT ![k] = @ + n]
  <2> HIDE DEF n
  <2>1. PICK m : m = d.marked \union {k}
    OBVIOUS
  <2>2. PICK d1 : d1 = [d EXCEPT !.marked = m]
    OBVIOUS
  <2>3. /\ d1 \in Databases /\ d1.marked = m /\ d1.rows = d.rows /\ d1.tasks = d.tasks
        /\ d1.workspaces = d.workspaces
    BY <1>0, <2>1, <2>2 DEF Databases
  <2>4. PICK R : R = [d.rows EXCEPT ![k] = @ + n]
    OBVIOUS
  <2>5. R \in [Imports -> Nat]
    BY <1>0, <1>4, <2>4 DEF Databases
  <2>6. e = [d1 EXCEPT !.rows = R]
    BY <1>3, <2>1, <2>2, <2>3, <2>4
  <2>7. /\ e \in Databases /\ e.marked = m /\ e.rows = R /\ e.tasks = d.tasks
        /\ e.workspaces = d.workspaces
    BY <2>3, <2>5, <2>6 DEF Databases
  <2> QED
    BY <2>1, <2>4, <2>7
<1>6. e.rows[k] = n /\ \A j \in Imports \ {k} : e.rows[j] = d.rows[j]
  <2> HIDE DEF n
  <2> QED
    BY <1>0, <1>1, <1>4, <1>5 DEF Databases
<1>7. Accounted(e)
  BY <1>0, <1>5, <1>6 DEF Accounted
<1>8. M!Marked(e) <=> M!Marked(d)
  BY <1>4, <1>5 DEF M!Marked
<1>9. Catalogued(e)
  BY <1>0, <1>5, <1>8 DEF Catalogued
<1> QED
  BY <1>2, <1>5, <1>7, <1>8, <1>9 DEF Sound

LEMMA WithTasksSound ==
  ASSUME NEW d, Sound(d), ~M!Marked(d), NEW S \in SUBSET M!Task,
         source["tasks.json"] # "absent" => S = M!InJson
  PROVE  /\ Sound(M!WithTasks(d, S)) /\ M!Marked(M!WithTasks(d, S))
         /\ \A t \in M!Task : M!WithTasks(d, S).tasks[t] >= d.tasks[t]
         /\ d.workspaces.rows \subseteq M!WithTasks(d, S).workspaces.rows
<1>0. d \in Databases /\ Accounted(d) /\ Catalogued(d)
  BY DEF Sound
<1>1. PICK e : e = M!WithTasks(d, S)
  OBVIOUS
<1>2. PICK w : w = [d.workspaces EXCEPT !.rows = @ \union S]
  OBVIOUS
<1>3. /\ w \in [form : {"absent", "old", "new"}, rows : SUBSET M!Task, aside : SUBSET M!Task]
      /\ d.workspaces.rows \subseteq w.rows
  BY <1>0, <1>2 DEF Databases
<1>4. PICK T1 : T1 = [t \in M!Task |-> IF t \in S THEN 1 ELSE d.tasks[t]]
  OBVIOUS
<1>5. /\ T1 \in [M!Task -> 0 .. MaxWork + 1]
      /\ \A t \in M!Task : T1[t] = IF t \in S THEN 1 ELSE 0
      /\ \A t \in M!Task : T1[t] >= d.tasks[t]
  <2>1. 1 \in 0 .. MaxWork + 1 /\ 0 \in 0 .. MaxWork + 1
    BY RuntimeAssumption
  <2>2. \A t \in M!Task : d.tasks[t] = 0
    BY <1>0 DEF Catalogued
  <2> QED
    BY <1>4, <2>1, <2>2
<1>6. e = [d EXCEPT !.tasks = T1, !.workspaces = w, !.marked = @ \union {"catalog"}]
  BY <1>1, <1>2, <1>4 DEF M!WithTasks
<1>7. /\ e \in Databases /\ e.tasks = T1 /\ e.workspaces = w /\ e.rows = d.rows
      /\ e.marked = d.marked \union {"catalog"}
  BY <1>0, <1>3, <1>5, <1>6 DEF Databases
<1>8. Accounted(e)
  BY <1>0, <1>7 DEF Accounted, Imports, M!Kinds
<1>9. M!Marked(e)
  BY <1>7 DEF M!Marked
<1>10. Catalogued(e)
  BY <1>5, <1>7, <1>9 DEF Catalogued, M!InJson, M!Task
<1> QED
  BY <1>1, <1>3, <1>5, <1>7, <1>8, <1>9, <1>10 DEF Sound

\* A task's record that is made or changed once the catalog is marked.
LEMMA RecordSound ==
  ASSUME NEW d, Sound(d), M!Marked(d), NEW t \in M!Task, NEW n \in 1 .. MaxWork + 1, n >= d.tasks[t],
         t = "c" => d.tasks[t] > 0
  PROVE  /\ Sound([d EXCEPT !.tasks[t] = n]) /\ M!Marked([d EXCEPT !.tasks[t] = n])
         /\ \A u \in M!Task : [d EXCEPT !.tasks[t] = n].tasks[u] >= d.tasks[u]
         /\ [d EXCEPT !.tasks[t] = n].workspaces = d.workspaces
<1>0. d \in Databases /\ Accounted(d) /\ Catalogued(d)
  BY DEF Sound
<1>1. PICK e : e = [d EXCEPT !.tasks[t] = n]
  OBVIOUS
<1>2. n \in 0 .. MaxWork + 1
  BY RuntimeAssumption
<1>3. /\ e \in Databases /\ e.marked = d.marked /\ e.rows = d.rows
      /\ e.workspaces = d.workspaces /\ e.tasks = [d.tasks EXCEPT ![t] = n]
  BY <1>0, <1>1, <1>2 DEF Databases
<1>4. e.tasks[t] = n /\ \A u \in M!Task \ {t} : e.tasks[u] = d.tasks[u]
  BY <1>0, <1>3 DEF Databases
<1>5. \A u \in M!Task : d.tasks[u] \in Nat
  BY <1>0, RuntimeAssumption DEF Databases
<1>6. Accounted(e) /\ M!Marked(e)
  BY <1>0, <1>3 DEF Accounted, M!Marked
<1>7. Catalogued(e)
  BY <1>0, <1>4, <1>5, <1>6 DEF Catalogued, M!Task
<1>8. \A u \in M!Task : e.tasks[u] >= d.tasks[u]
  BY <1>4, <1>5
<1> QED
  BY <1>1, <1>3, <1>6, <1>7, <1>8 DEF Sound

\* The table of workspaces decides nothing else.
LEMMA TableSound ==
  ASSUME NEW d, Sound(d),
         NEW w \in [form : {"absent", "old", "new"}, rows : SUBSET M!Task, aside : SUBSET M!Task]
  PROVE  /\ Sound([d EXCEPT !.workspaces = w])
         /\ [d EXCEPT !.workspaces = w].workspaces = w
         /\ [d EXCEPT !.workspaces = w].tasks = d.tasks
         /\ M!Marked([d EXCEPT !.workspaces = w]) <=> M!Marked(d)
<1>0. d \in Databases /\ Accounted(d) /\ Catalogued(d)
  BY DEF Sound
<1>1. PICK e : e = [d EXCEPT !.workspaces = w]
  OBVIOUS
<1>2. /\ e \in Databases /\ e.marked = d.marked /\ e.rows = d.rows
      /\ e.workspaces = w /\ e.tasks = d.tasks
  BY <1>0, <1>1 DEF Databases
<1>3. Accounted(e) /\ Catalogued(e) /\ (M!Marked(e) <=> M!Marked(d))
  BY <1>0, <1>2 DEF Accounted, Catalogued, M!Marked
<1> QED
  BY <1>1, <1>2, <1>3 DEF Sound

-----------------------------------------------------------------------------
(* The step of a process.                                                  *)

Same == UNCHANGED <<source, began>>
Advances == \A t \in M!Task : db'.tasks[t] >= db.tasks[t]

LEMMA SameSound ==
  ASSUME Same, NEW d
  PROVE  Sound(d)' <=> Sound(d)
  BY DEF Same, Sound, Accounted, Catalogued, From, M!Origin, Databases, M!Marked

\* The counts of a database are numbers.
LEMMA CountsAreNumbers == ASSUME MigrationInv PROVE \A t \in M!Task : db.tasks[t] \in Nat /\ db.tasks[t] >= db.tasks[t]
  BY RuntimeAssumption DEF MigrationInv, Sound, Databases

\* A step of the process that holds the transaction, or of one while there is
\* none.
LEMMA StepInside ==
  ASSUME MigrationInv, Same, NEW p \in Process, writer \in {M!Nobody, p},
         NEW w, NEW S, NEW d, NEW e, NEW h \in {M!Nobody, p},
         at' = [at EXCEPT ![p] = w], found' = [found EXCEPT ![p] = S],
         db' = d, draft' = e, writer' = h,
         Placed(w, S, d), w \in Transaction => h = p,
         Sound(d), Sound(e), e.tasks = d.tasks, M!Marked(e) <=> M!Marked(d),
         M!Marked(db) => M!Marked(d), \A t \in M!Task : d.tasks[t] >= db.tasks[t],
         began.workspaces.rows \subseteq d.workspaces.rows,
         began.workspaces.rows \subseteq IF w \in Aside THEN e.workspaces.aside ELSE e.workspaces.rows
  PROVE  MigrationInv' /\ Advances
<1>1. SourcesTyped'
  BY DEF MigrationInv, SourcesTyped, Same, Databases
<1>2. Sound(db)' /\ Sound(draft)'
  BY SameSound
<1>3. /\ at' \in [Process -> Places] /\ found' \in [Process -> SUBSET (M!Task \union M!Kinds)]
      /\ at'[p] = w /\ found'[p] = S
      /\ \A q \in Process \ {p} : at'[q] = at[q] /\ found'[q] = found[q]
  BY DEF MigrationInv, Placed
<1>4. \A q \in Process \ {p} : at[q] \notin Transaction
  BY RuntimeAssumption DEF MigrationInv, PlaceOK, M!Nobody
<1>5. \A q \in Process : PlaceOK(q)'
  <2>1. \A q \in Process \ {p} : Placed(at[q], found[q], d)
    BY DEF MigrationInv, PlaceOK, Placed
  <2>2. \A q \in Process : Placed(at'[q], found'[q], d)
    BY <1>3, <2>1
  <2> QED
    BY <1>3, <1>4, <2>2 DEF PlaceOK, Placed, Same, M!Marked
<1>6. TableKept'
  <2>1. Swapped' <=> w \in Aside
    BY <1>3, <1>4 DEF Swapped, Aside, Transaction
  <2> QED
    BY <2>1 DEF TableKept, Same
<1>7. (M!Marked(draft) <=> M!Marked(db))'
  BY DEF M!Marked
<1> QED
  BY <1>1, <1>2, <1>3, <1>5, <1>6, <1>7 DEF MigrationInv, Advances

\* A step of a process that leaves the database alone, outside of transactions.
LEMMA StepOutside ==
  ASSUME MigrationInv, Same, NEW p \in Process, UNCHANGED <<db, draft, writer>>,
         NEW w, NEW S, at' = [at EXCEPT ![p] = w], found' = [found EXCEPT ![p] = S],
         at[p] \notin Transaction, w \notin Transaction, Placed(w, S, db)
  PROVE  MigrationInv' /\ Advances
<1>1. SourcesTyped'
  BY DEF MigrationInv, SourcesTyped, Same, Databases
<1>2. Sound(db)' /\ Sound(draft)'
  BY SameSound DEF MigrationInv
<1>3. /\ at' \in [Process -> Places] /\ found' \in [Process -> SUBSET (M!Task \union M!Kinds)]
      /\ at'[p] = w /\ found'[p] = S
      /\ \A q \in Process \ {p} : at'[q] = at[q] /\ found'[q] = found[q]
  BY DEF MigrationInv, Placed
<1>4. \A q \in Process : PlaceOK(q)'
  <2>1. \A q \in Process : Placed(at'[q], found'[q], db)
    BY <1>3 DEF MigrationInv, PlaceOK
  <2> QED
    BY <1>3, <2>1 DEF MigrationInv, PlaceOK, Placed, Same, M!Marked
<1>5. TableKept'
  <2>1. Swapped' <=> Swapped
    BY <1>3 DEF Swapped, Aside, Transaction
  <2> QED
    BY <2>1 DEF TableKept, Same, MigrationInv
<1>6. Advances
  BY CountsAreNumbers DEF Advances
<1> QED
  BY <1>1, <1>2, <1>3, <1>4, <1>5, <1>6 DEF MigrationInv, M!Marked

\* Who is in a transaction holds it, and the rows are where it is.
LEMMA Holder ==
  ASSUME MigrationInv, NEW p \in Process
  PROVE  /\ Placed(at[p], found[p], db) /\ at[p] \in Places
         /\ at[p] \in Transaction => writer = p
         /\ at[p] \in Plain \/ (at[p] \in Transaction /\ at[p] # "rows") => found[p] = {}
         /\ at[p] \in Transaction \ Aside => began.workspaces.rows \subseteq draft.workspaces.rows
         /\ at[p] \in Aside => began.workspaces.rows \subseteq draft.workspaces.aside
         /\ began.workspaces.rows \subseteq db.workspaces.rows
         /\ Sound(db) /\ Sound(draft) /\ draft.tasks = db.tasks /\ (M!Marked(draft) <=> M!Marked(db))
         /\ at = [at EXCEPT ![p] = at[p]] /\ found = [found EXCEPT ![p] = found[p]]
<1>1. PlaceOK(p) /\ \A q \in Process : PlaceOK(q)
  BY DEF MigrationInv
<1>2. at[p] \in Transaction \ Aside => ~Swapped
  BY <1>1 DEF PlaceOK, Swapped, Aside, Transaction
<1>3. at[p] \in Aside => Swapped
  BY DEF Swapped
<1> QED
  BY <1>1, <1>2, <1>3 DEF MigrationInv, TableKept, PlaceOK, Placed

LEMMA StopsKeeps ==
  ASSUME MigrationInv, NEW p \in Process, M!Stops(p)
  PROVE  MigrationInv' /\ Advances
<1>0. /\ at' = [at EXCEPT ![p] = "down"] /\ found' = [found EXCEPT ![p] = {}]
      /\ db' = db /\ Same
  BY DEF M!Stops, M!Goes, M!Idle, Same
<1>1. Placed("down", {}, db) /\ "down" \notin Transaction /\ "down" \notin Aside
  BY DEF Placed, Places, Plain, Transaction, Aside
<1>2. CASE writer = p
  <2>1. draft' = db /\ writer' = M!Nobody
    BY <1>2 DEF M!Stops
  <2> QED
    BY <1>0, <1>1, <1>2, <2>1, Holder, CountsAreNumbers, StepInside
<1>3. CASE writer # p
  <2>1. UNCHANGED <<db, draft, writer>>
    BY <1>0, <1>3 DEF M!Stops
  <2> QED
    BY <1>0, <1>1, <1>3, <2>1, Holder, StepOutside
<1> QED
  BY <1>2, <1>3

\* A transaction begins with the database as committed.
LEMMA OpensKeeps ==
  ASSUME MigrationInv, NEW p \in Process, NEW from \in Plain, NEW to \in {"rows", "upgrade"},
         M!Opens(p, from, to)
  PROVE  MigrationInv' /\ Advances
<1>0. /\ at' = [at EXCEPT ![p] = to] /\ found' = found /\ db' = db /\ draft' = db
      /\ writer = M!Nobody /\ writer' = p /\ Same /\ at[p] = from
  BY DEF M!Opens, M!Goes, M!Idle, Same
<1>1. found[p] = {} /\ found' = [found EXCEPT ![p] = {}]
  BY <1>0, Holder
<1>2. Placed(to, {}, db) /\ to \notin Aside
  BY DEF Placed, Places, Plain, Transaction, Aside
<1> QED
  BY <1>0, <1>1, <1>2, Holder, CountsAreNumbers, StepInside

\* A statement of a transaction, of rows or of the table of workspaces.
LEMMA StatementKeeps ==
  ASSUME MigrationInv, NEW p \in Process, at[p] \in Transaction, Same,
         NEW w \in Transaction, NEW S, Placed(w, S, db), NEW e,
         at' = [at EXCEPT ![p] = w], found' = [found EXCEPT ![p] = S],
         db' = db, writer' = writer, draft' = e,
         Sound(e), e.tasks = draft.tasks, M!Marked(e) <=> M!Marked(draft),
         began.workspaces.rows \subseteq IF w \in Aside THEN e.workspaces.aside ELSE e.workspaces.rows
  PROVE  MigrationInv' /\ Advances
  BY Holder, CountsAreNumbers, StepInside

\* A commit of what was made of the database, or of the draft.
LEMMA CommitKeeps ==
  ASSUME MigrationInv, NEW p \in Process, writer \in {M!Nobody, p}, Same,
         NEW w, w \notin Transaction, NEW S, NEW d, Placed(w, S, d),
         at' = [at EXCEPT ![p] = w], found' = [found EXCEPT ![p] = S], M!Commits(d),
         Sound(d), M!Marked(db) => M!Marked(d), \A t \in M!Task : d.tasks[t] >= db.tasks[t],
         began.workspaces.rows \subseteq d.workspaces.rows
  PROVE  MigrationInv' /\ Advances
<1>1. w \notin Aside
  BY DEF Aside, Transaction
<1> QED
  BY <1>1, StepInside DEF M!Commits

-----------------------------------------------------------------------------
(* The actions.                                                            *)

\* What is read can be read after a repair as before.
LEMMA RepairKeeps ==
  ASSUME MigrationInv, NEW s \in M!Sources, M!Repair(s)
  PROVE  MigrationInv' /\ Advances
<1>0. /\ source[s] = "bad" /\ source' = [source EXCEPT ![s] = "good"]
      /\ UNCHANGED <<db, writer, draft, at, found, began>>
  BY DEF M!Repair
<1>1. SourcesTyped' /\ (source'["tasks.json"] = "absent" <=> source["tasks.json"] = "absent")
  BY <1>0 DEF MigrationInv, SourcesTyped, M!Sources, Databases
<1>2. \A k \in Imports : From(k) # "bad" => From(k)' = From(k)
  BY <1>0 DEF From, M!Origin, MigrationInv, SourcesTyped, M!Sources, M!Kinds, Imports
<1>3. \A k \in Imports : From(k) = "bad" => From(k)' \in {"bad", "good"}
  BY <1>0 DEF From, M!Origin, MigrationInv, SourcesTyped, M!Sources, M!Kinds, Imports
<1>4. ASSUME NEW d, Sound(d) PROVE Sound(d)'
  <2>1. Accounted(d)'
    BY <1>0, <1>2, <1>4 DEF Sound, Accounted
  <2> QED
    BY <1>0, <1>1, <1>4, <2>1 DEF Sound, Catalogued, M!Marked, Databases
<1>5. Sound(db)' /\ Sound(draft)'
  BY <1>0, <1>4 DEF MigrationInv
<1>6. ASSUME NEW p \in Process PROVE PlaceOK(p)'
  BY <1>0, <1>1 DEF MigrationInv, PlaceOK, Placed, M!Marked
<1>7. TableKept' /\ (M!Marked(draft) <=> M!Marked(db))'
  BY <1>0 DEF MigrationInv, TableKept, Swapped, M!Marked
<1>8. Advances
  BY <1>0, CountsAreNumbers DEF Advances
<1> QED
  BY <1>0, <1>1, <1>5, <1>6, <1>7, <1>8 DEF MigrationInv

\* Rows of a kind come into the draft, once.
LEMMA ImportRowsKeeps ==
  ASSUME MigrationInv, NEW p \in Process, NEW k \in M!Kinds, M!ImportRows(p, k)
  PROVE  MigrationInv' /\ Advances
<1>0. /\ at[p] = "rows" /\ found' = [found EXCEPT ![p] = found[p] \union {k}]
      /\ k \notin draft.marked => From(k) # "bad"
      /\ draft' = IF k \notin draft.marked THEN M!Imported(draft, k, From(k)) ELSE draft
      /\ UNCHANGED <<db, writer, at>> /\ Same
  BY DEF M!ImportRows, M!Idle, Same, M!Due, From, M!Kinds
<1>1. k \in Imports /\ at[p] \in Transaction /\ at[p] \notin Aside
  BY <1>0 DEF Imports, Transaction, Aside
<1>2. Placed(at[p], found[p] \union {k}, db)
  BY <1>0, Holder DEF Placed, Transaction, Plain
<1>6. PICK S, w : S = found[p] \union {k} /\ w = "rows"
  OBVIOUS
<1>5. at' = [at EXCEPT ![p] = w] /\ found' = [found EXCEPT ![p] = S] /\ w \in Transaction
  BY <1>0, <1>6, Holder DEF Transaction
<1>7. Sound(draft) /\ began.workspaces.rows \subseteq draft.workspaces.rows
  BY <1>1, Holder
<1>8. Placed(w, S, db) /\ w \notin Aside
  BY <1>0, <1>2, <1>6 DEF Aside
<1>9. at[p] \in Transaction /\ db' = db /\ writer' = writer /\ Same
  BY <1>0, <1>1
<1>3. CASE k \in draft.marked
  <2>1. draft' = draft
    BY <1>0, <1>3
  <2> QED
    BY <1>5, <1>7, <1>8, <1>9, <2>1, StatementKeeps
<1>4. CASE k \notin draft.marked
  <2>1. PICK e : e = M!Imported(draft, k, From(k))
    OBVIOUS
  <2>2. /\ Sound(e) /\ e.tasks = draft.tasks /\ e.workspaces = draft.workspaces
        /\ M!Marked(e) <=> M!Marked(draft)
    BY <1>0, <1>1, <1>4, <2>1, Holder, ImportedSound
  <2>3. draft' = e
    BY <1>0, <1>4, <2>1
  <2>4. began.workspaces.rows \subseteq e.workspaces.rows
    BY <1>7, <2>2
  <2> QED
    BY <1>5, <1>8, <1>9, <2>2, <2>3, <2>4, StatementKeeps
<1> QED
  BY <1>3, <1>4

\* The transaction of the rows, and that of the table, are committed.
LEMMA DraftCommitted ==
  ASSUME MigrationInv, NEW p \in Process, at[p] \in Transaction \ Aside,
         NEW w \in {"schema", "json"}, Same,
         at' = [at EXCEPT ![p] = w], found' = [found EXCEPT ![p] = {}], M!Commits(draft)
  PROVE  MigrationInv' /\ Advances
<1>1. \A t \in M!Task : draft.tasks[t] >= db.tasks[t]
  BY Holder, CountsAreNumbers
<1>2. w \notin Transaction /\ writer = p
  BY Holder DEF Transaction
<1>3. Placed(w, {}, draft)
  BY DEF Placed, Plain, Places, Transaction
<1> QED
  BY <1>1, <1>2, <1>3, Holder, CommitKeeps

LEMMA OpenSessionKeeps ==
  ASSUME MigrationInv, NEW p \in Process, M!OpenSession(p)
  PROVE  MigrationInv' /\ Advances
<1>1. From("sdk") = source["sessions.sqlite3"] /\ "sdk" \in Imports
  BY DEF From, M!Origin, Imports
<1>2. PICK e : e = M!Imported(db, "sdk", From("sdk"))
  OBVIOUS
<1>3. /\ at[p] = "ready" /\ writer = M!Nobody /\ "sdk" \notin db.marked /\ From("sdk") # "bad"
      /\ M!Commits(e) /\ UNCHANGED <<at, found>> /\ Same
  BY <1>1, <1>2 DEF M!OpenSession, M!Idle, Same
<1>4. Sound(e) /\ e.tasks = db.tasks /\ e.workspaces = db.workspaces /\ (M!Marked(e) <=> M!Marked(db))
  BY <1>1, <1>2, <1>3, Holder, ImportedSound
<1>5. Placed(at[p], found[p], e) /\ at[p] \notin Transaction
  BY <1>3, <1>4, Holder DEF Placed, Transaction
<1>6. at' = [at EXCEPT ![p] = at[p]] /\ found' = [found EXCEPT ![p] = found[p]]
  BY <1>3, Holder
<1>7. \A t \in M!Task : e.tasks[t] >= db.tasks[t]
  BY <1>4, CountsAreNumbers
<1> QED
  BY <1>3, <1>4, <1>5, <1>6, <1>7, Holder, CommitKeeps

LEMMA CreateSchemaKeeps ==
  ASSUME MigrationInv, NEW p \in Process, M!CreateSchema(p)
  PROVE  MigrationInv' /\ Advances
<1>1. PICK w : w = [db.workspaces EXCEPT !.form = "new"]
  OBVIOUS
<1>2. PICK d : d = IF db.workspaces.form = "absent" THEN [db EXCEPT !.workspaces = w] ELSE db
  OBVIOUS
<1>3. /\ at[p] = "schema" /\ writer = M!Nobody /\ M!Commits(d) /\ Same
      /\ at' = [at EXCEPT ![p] = "columns"] /\ found' = found
  BY <1>1, <1>2 DEF M!CreateSchema, M!Goes, M!Idle, Same
<1>4. /\ w \in [form : {"absent", "old", "new"}, rows : SUBSET M!Task, aside : SUBSET M!Task]
      /\ w.rows = db.workspaces.rows
  BY <1>1, Holder DEF Sound, Databases
<1>5. /\ Sound(d) /\ d.tasks = db.tasks /\ d.workspaces.rows = db.workspaces.rows
      /\ M!Marked(d) <=> M!Marked(db)
  BY <1>2, <1>4, Holder, TableSound
<1>6. found[p] = {} /\ found' = [found EXCEPT ![p] = {}]
  BY <1>3, Holder DEF Plain
<1>7. Placed("columns", {}, d) /\ "columns" \notin Transaction
  BY DEF Placed, Places, Plain, Transaction
<1>8. \A t \in M!Task : d.tasks[t] >= db.tasks[t]
  BY <1>5, CountsAreNumbers
<1> QED
  BY <1>3, <1>5, <1>6, <1>7, <1>8, Holder, CommitKeeps

LEMMA WorkspacesKeeps ==
  ASSUME MigrationInv, NEW p \in Process, NEW from \in Transaction \ {"rows"},
         NEW to \in Transaction \ {"rows"}, NEW form \in {"absent", "old", "new"},
         NEW rows \in SUBSET M!Task, NEW aside \in SUBSET M!Task,
         M!Workspaces(p, from, form, rows, aside, to),
         began.workspaces.rows \subseteq IF to \in Aside THEN aside ELSE rows
  PROVE  MigrationInv' /\ Advances
<1>1. PICK w : w = [form |-> form, rows |-> rows, aside |-> aside]
  OBVIOUS
<1>2. PICK e : e = [draft EXCEPT !.workspaces = w]
  OBVIOUS
<1>3. /\ at[p] = from /\ draft' = e /\ at' = [at EXCEPT ![p] = to]
      /\ UNCHANGED <<db, writer, found>> /\ Same
  BY <1>1, <1>2 DEF M!Workspaces, M!Statement, M!Goes, M!Idle, Same
<1>4. /\ w \in [form : {"absent", "old", "new"}, rows : SUBSET M!Task, aside : SUBSET M!Task]
      /\ w.rows = rows /\ w.aside = aside
  BY <1>1
<1>5. Sound(e) /\ e.workspaces = w /\ e.tasks = draft.tasks /\ (M!Marked(e) <=> M!Marked(draft))
  BY <1>2, <1>4, Holder, TableSound
<1>6. found[p] = {} /\ found' = [found EXCEPT ![p] = {}]
  BY <1>3, Holder
<1>7. Placed(to, {}, db)
  BY DEF Placed, Places, Plain, Transaction
<1>8. to \in Transaction /\ at[p] \in Transaction
  BY <1>3
<1> QED
  BY <1>3, <1>4, <1>5, <1>6, <1>7, <1>8, StatementKeeps

\* The rows are in the table, or aside while there is none or an empty one.
LEMMA UpgradeKeeps ==
  ASSUME MigrationInv, NEW p \in Process, M!Upgrade(p)
  PROVE  MigrationInv' /\ Advances
<1>1. PICK w : w = draft.workspaces
  OBVIOUS
<1>2. w \in [form : {"absent", "old", "new"}, rows : SUBSET M!Task, aside : SUBSET M!Task]
  BY <1>1, Holder DEF Sound, Databases
<1>3. CASE w.form = "old" /\ M!Workspaces(p, "upgrade", "absent", {}, w.rows, "renamed")
  <2>1. at[p] = "upgrade"
    BY <1>3 DEF M!Workspaces
  <2>2. began.workspaces.rows \subseteq w.rows
    BY <1>1, <2>1, Holder DEF Transaction, Aside
  <2> QED
    BY <1>2, <1>3, <2>2, WorkspacesKeeps DEF Transaction, Aside
<1>4. CASE M!Workspaces(p, "renamed", "new", {}, w.aside, "created")
  <2>1. at[p] = "renamed"
    BY <1>4 DEF M!Workspaces
  <2>2. began.workspaces.rows \subseteq w.aside
    BY <1>1, <2>1, Holder DEF Aside
  <2> QED
    BY <1>2, <1>4, <2>2, WorkspacesKeeps DEF Transaction, Aside
<1>5. CASE M!Workspaces(p, "created", "new", w.aside, w.aside, "copied")
  <2>1. at[p] = "created"
    BY <1>5 DEF M!Workspaces
  <2>2. began.workspaces.rows \subseteq w.aside
    BY <1>1, <2>1, Holder DEF Aside
  <2> QED
    BY <1>2, <1>5, <2>2, WorkspacesKeeps DEF Transaction, Aside
<1>6. CASE M!Workspaces(p, "copied", "new", w.rows, {}, "upgrade")
  <2>1. at[p] = "copied"
    BY <1>6 DEF M!Workspaces
  <2>2. began.workspaces.rows \subseteq w.rows
    BY <1>1, <2>1, Holder DEF Transaction, Aside
  <2> QED
    <3>1. "copied" \in Transaction \ {"rows"} /\ "upgrade" \in Transaction \ {"rows"}
      BY DEF Transaction
    <3>2. w.rows \in SUBSET M!Task /\ {} \in SUBSET M!Task /\ "upgrade" \notin Aside
      BY <1>2 DEF Aside
    <3> QED
      BY <1>6, <2>2, <3>1, <3>2, WorkspacesKeeps
<1> QED
  BY <1>1, <1>3, <1>4, <1>5, <1>6 DEF M!Upgrade

\* What was read of the older catalog comes into one that is not marked yet.
LEMMA ImportCatalogKeeps ==
  ASSUME MigrationInv, NEW p \in Process,
         NEW from, NEW to,
         \/ from = "json_import" /\ to = "legacy"
         \/ from = "legacy_import" /\ to = "snapshots",
         M!ImportCatalog(p, from, to)
  PROVE  MigrationInv' /\ Advances
<1>1. PICK d : d = IF M!Marked(db) THEN db ELSE M!WithTasks(db, found[p])
  OBVIOUS
<1>2. /\ at[p] = from /\ writer = M!Nobody /\ M!Commits(d) /\ Same
      /\ at' = [at EXCEPT ![p] = to] /\ found' = [found EXCEPT ![p] = {}]
  BY <1>1 DEF M!ImportCatalog, M!Goes, M!Idle, Same
<1>3. /\ Sound(d) /\ M!Marked(d) /\ \A t \in M!Task : d.tasks[t] >= db.tasks[t]
      /\ db.workspaces.rows \subseteq d.workspaces.rows
  <2>1. CASE M!Marked(db)
    BY <1>1, <2>1, Holder, CountsAreNumbers
  <2>2. CASE ~M!Marked(db)
    <3>1. found[p] \in SUBSET M!Task /\ (source["tasks.json"] # "absent" => found[p] = M!InJson)
      BY <1>2, <2>2, Holder DEF Placed, M!InJson, M!InLegacy, M!Task
    <3> QED
      BY <1>1, <2>2, <3>1, Holder, WithTasksSound
  <2> QED
    BY <2>1, <2>2
<1>4. Placed(to, {}, d) /\ to \notin Transaction
  BY <1>3 DEF Placed, Places, Plain, Transaction
<1>5. began.workspaces.rows \subseteq d.workspaces.rows
  BY <1>3, Holder
<1> QED
  BY <1>2, <1>3, <1>4, <1>5, CommitKeeps

\* A snapshot makes a task that is not there; work changes one that is.
LEMMA RecordKeeps ==
  ASSUME MigrationInv, NEW p \in Process, at[p] \in {"snapshots", "ready"}, writer = M!Nobody, Same,
         NEW t \in M!Task, NEW n \in 1 .. MaxWork + 1, n >= db.tasks[t], t = "c" => db.tasks[t] > 0,
         NEW S \in SUBSET (M!Task \union M!Kinds),
         M!Commits([db EXCEPT !.tasks[t] = n]), at' = at, found' = [found EXCEPT ![p] = S]
  PROVE  MigrationInv' /\ Advances
<1>1. M!Marked(db) /\ Sound(db)
  BY Holder DEF Placed
<1>2. PICK d : d = [db EXCEPT !.tasks[t] = n]
  OBVIOUS
<1>3. /\ Sound(d) /\ M!Marked(d) /\ \A u \in M!Task : d.tasks[u] >= db.tasks[u]
      /\ d.workspaces = db.workspaces
  BY <1>1, <1>2, RecordSound
<1>4. Placed(at[p], S, d) /\ at[p] \notin Transaction
  BY <1>3 DEF Placed, Places, Plain, Transaction
<1>5. M!Commits(d) /\ at' = [at EXCEPT ![p] = at[p]]
  BY <1>2, Holder
<1> QED
  BY <1>3, <1>4, <1>5, Holder, CommitKeeps

LEMMA ImportSnapshotKeeps ==
  ASSUME MigrationInv, NEW p \in Process, NEW t \in M!Task, M!ImportSnapshot(p, t)
  PROVE  MigrationInv' /\ Advances
<1>0. /\ at[p] = "snapshots" /\ writer = M!Nobody /\ t \in M!Snapshots /\ Same /\ at' = at
      /\ found' = [found EXCEPT ![p] = found[p] \union {t}]
      /\ M!Commits(M!Restored(db, t))
  BY DEF M!ImportSnapshot, M!Idle, Same
<1>1. PICK n : n = IF db.tasks[t] = 0 THEN 1 ELSE db.tasks[t]
  OBVIOUS
<1>2. M!Restored(db, t) = [db EXCEPT !.tasks[t] = n]
  BY <1>1 DEF M!Restored
<1>3. n \in 1 .. MaxWork + 1 /\ n >= db.tasks[t] /\ t # "c"
  BY <1>0, <1>1, Holder, RuntimeAssumption DEF Sound, Databases, M!Snapshots
<1>4. found[p] \union {t} \in SUBSET (M!Task \union M!Kinds)
  BY Holder DEF Placed
<1>5. PICK S : S = found[p] \union {t}
  OBVIOUS
<1>6. M!Commits([db EXCEPT !.tasks[t] = n]) /\ found' = [found EXCEPT ![p] = S]
  BY <1>0, <1>2, <1>5
<1>7. S \in SUBSET (M!Task \union M!Kinds) /\ at[p] \in {"snapshots", "ready"} /\ (t = "c" => db.tasks[t] > 0)
  BY <1>0, <1>3, <1>4, <1>5
<1> QED
  BY <1>0, <1>3, <1>6, <1>7, RecordKeeps

LEMMA WorkKeeps ==
  ASSUME MigrationInv, NEW p \in Process, NEW t \in M!Task, M!Work(p, t)
  PROVE  MigrationInv' /\ Advances
<1>0. /\ at[p] = "ready" /\ writer = M!Nobody /\ db.tasks[t] \in 1 .. MaxWork
      /\ UNCHANGED <<at, found>> /\ Same
      /\ M!Commits([db EXCEPT !.tasks[t] = @ + 1])
  BY DEF M!Work, M!Idle, Same
<1>1. PICK n : n = db.tasks[t] + 1
  OBVIOUS
<1>2. n \in 1 .. MaxWork + 1 /\ n >= db.tasks[t] /\ db.tasks[t] > 0
  BY <1>0, <1>1, RuntimeAssumption
<1>3. M!Commits([db EXCEPT !.tasks[t] = n])
  BY <1>0, <1>1
<1>4. found[p] \in SUBSET (M!Task \union M!Kinds) /\ found' = [found EXCEPT ![p] = found[p]]
  BY <1>0, Holder DEF Placed
<1> QED
  BY <1>0, <1>2, <1>3, <1>4, RecordKeeps

\* Steps between two statements.
LEMMA MovesKeeps ==
  ASSUME MigrationInv, NEW p \in Process, Same, UNCHANGED <<db, writer, draft>>,
         NEW w, NEW S, at[p] \notin Transaction, w \notin Transaction, Placed(w, S, db),
         at' = [at EXCEPT ![p] = w], found' = [found EXCEPT ![p] = S]
  PROVE  MigrationInv' /\ Advances
  BY StepOutside

LEMMA MigrationStep == MigrationInv /\ [M!Next]_(M!vars) => MigrationInv' /\ Advances
<1> SUFFICES ASSUME MigrationInv, [M!Next]_(M!vars) PROVE MigrationInv' /\ Advances
  OBVIOUS
<1>1. ASSUME NEW s \in M!Sources, M!Repair(s) PROVE MigrationInv' /\ Advances
  BY <1>1, RepairKeeps
<1>2. ASSUME NEW p \in Process, M!Start(p) PROVE MigrationInv' /\ Advances
  <2>1. /\ at[p] = "down" /\ at' = [at EXCEPT ![p] = "sessions"]
        /\ UNCHANGED <<source, db, writer, draft, found, began>>
    BY <1>2 DEF M!Start, M!Goes
  <2>2. found' = [found EXCEPT ![p] = {}]
    BY <2>1, Holder DEF Plain
  <2>3. Placed("sessions", {}, db) /\ "sessions" \notin Transaction /\ "down" \notin Transaction
    BY DEF Placed, Places, Plain, Transaction
  <2> QED
    BY <2>1, <2>2, <2>3, MovesKeeps DEF Same
<1>3. ASSUME NEW p \in Process,
             \/ M!Die(p) \/ M!RowsUnreadable(p) \/ M!CatalogUnreadable(p, "json", "tasks.json")
             \/ M!CatalogUnreadable(p, "legacy", "tasks.sqlite3")
      PROVE  MigrationInv' /\ Advances
  BY <1>3, StopsKeeps DEF M!Die, M!RowsUnreadable, M!CatalogUnreadable
<1>4. ASSUME NEW p \in Process, M!Opens(p, "sessions", "rows") \/ M!Opens(p, "columns", "upgrade")
      PROVE  MigrationInv' /\ Advances
  BY <1>4, OpensKeeps DEF Plain
<1>5. ASSUME NEW p \in Process, NEW k \in M!Kinds, M!ImportRows(p, k) PROVE MigrationInv' /\ Advances
  BY <1>5, ImportRowsKeeps
<1>6. ASSUME NEW p \in Process, M!RowsImported(p) PROVE MigrationInv' /\ Advances
  <2>1. /\ at[p] = "rows" /\ M!Commits(draft) /\ at' = [at EXCEPT ![p] = "schema"]
        /\ found' = [found EXCEPT ![p] = {}] /\ Same
    BY <1>6 DEF M!RowsImported, M!Goes, M!Idle, Same
  <2> QED
    BY <2>1, DraftCommitted DEF Transaction, Aside
<1>7. ASSUME NEW p \in Process, M!OpenSession(p) \/ M!CreateSchema(p) \/ M!Upgrade(p)
      PROVE  MigrationInv' /\ Advances
  BY <1>7, OpenSessionKeeps, CreateSchemaKeeps, UpgradeKeeps
<1>8. ASSUME NEW p \in Process, M!Upgraded(p) PROVE MigrationInv' /\ Advances
  <2>1. /\ at[p] = "upgrade" /\ M!Commits(draft) /\ at' = [at EXCEPT ![p] = "json"]
        /\ found' = found /\ Same
    BY <1>8 DEF M!Upgraded, M!Goes, M!Idle, Same
  <2>2. found' = [found EXCEPT ![p] = {}]
    BY <2>1, Holder DEF Transaction
  <2> QED
    BY <2>1, <2>2, DraftCommitted DEF Transaction, Aside
<1>9. ASSUME NEW p \in Process, M!ReadCatalog(p, "json", "tasks.json", M!InJson, "json_import")
      PROVE  MigrationInv' /\ Advances
  <2>1. /\ at[p] = "json" /\ source["tasks.json"] = "good" /\ at' = [at EXCEPT ![p] = "json_import"]
        /\ found' = [found EXCEPT ![p] = M!InJson] /\ UNCHANGED <<db, writer, draft>> /\ Same
    BY <1>9 DEF M!ReadCatalog, M!Goes, M!Idle, Same
  <2>2. Placed("json_import", M!InJson, db) /\ "json_import" \notin Transaction /\ "json" \notin Transaction
    BY <2>1 DEF Placed, Places, Plain, Transaction, M!InJson, M!Task
  <2> QED
    BY <2>1, <2>2, MovesKeeps
<1>10. ASSUME NEW p \in Process, M!ReadCatalog(p, "legacy", "tasks.sqlite3", M!InLegacy, "legacy_import")
       PROVE  MigrationInv' /\ Advances
  <2>1. /\ at[p] = "legacy" /\ at' = [at EXCEPT ![p] = "legacy_import"]
        /\ found' = [found EXCEPT ![p] = M!InLegacy] /\ UNCHANGED <<db, writer, draft>> /\ Same
    BY <1>10 DEF M!ReadCatalog, M!Goes, M!Idle, Same
  <2>2. /\ Placed("legacy_import", M!InLegacy, db)
        /\ "legacy_import" \notin Transaction /\ "legacy" \notin Transaction
    BY <2>1, Holder DEF Placed, Places, Plain, Transaction, M!InLegacy, M!Task
  <2> QED
    BY <2>1, <2>2, MovesKeeps
<1>11. ASSUME NEW p \in Process, M!JsonDone(p) PROVE MigrationInv' /\ Advances
  <2>1. /\ at[p] = "json" /\ at' = [at EXCEPT ![p] = "legacy"] /\ Same
        /\ (M!Marked(db) \/ source["tasks.json"] = "absent") /\ UNCHANGED <<db, writer, draft, found>>
    BY <1>11 DEF M!JsonDone, M!Goes, M!Idle, Same
  <2>2. found' = [found EXCEPT ![p] = {}]
    BY <1>11, <2>1, Holder DEF Plain, M!JsonDone
  <2>3. Placed("legacy", {}, db) /\ "json" \notin Transaction /\ "legacy" \notin Transaction
    BY <2>1 DEF Placed, Places, Plain, Transaction
  <2> QED
    BY <1>11, <2>1, <2>2, <2>3, MovesKeeps DEF M!JsonDone
<1>12. ASSUME NEW p \in Process, M!LegacyDone(p) PROVE MigrationInv' /\ Advances
  <2>1. /\ at[p] = "legacy" /\ at' = [at EXCEPT ![p] = "snapshots"] /\ Same /\ M!Marked(db)
        /\ found' = [found EXCEPT ![p] = {}] /\ UNCHANGED <<db, writer, draft>>
    BY <1>12 DEF M!LegacyDone, M!Goes, M!Idle, Same
  <2>2. Placed("snapshots", {}, db) /\ "snapshots" \notin Transaction /\ "legacy" \notin Transaction
    BY <2>1 DEF Placed, Places, Plain, Transaction
  <2> QED
    BY <2>1, <2>2, MovesKeeps
<1>13. ASSUME NEW p \in Process, M!NoLegacy(p) PROVE MigrationInv' /\ Advances
  <2>1. /\ at[p] = "legacy" /\ at' = [at EXCEPT ![p] = "legacy_import"] /\ Same
        /\ UNCHANGED <<db, writer, draft, found>>
    BY <1>13 DEF M!NoLegacy, M!Goes, M!Idle, Same
  <2>2. found' = [found EXCEPT ![p] = {}]
    BY <2>1, Holder DEF Plain
  <2>3. /\ Placed("legacy_import", {}, db)
        /\ "legacy_import" \notin Transaction /\ "legacy" \notin Transaction
    BY <2>1, Holder DEF Placed, Places, Plain, Transaction
  <2> QED
    BY <2>1, <2>2, <2>3, MovesKeeps
<1>14. ASSUME NEW p \in Process,
              M!ImportCatalog(p, "json_import", "legacy") \/ M!ImportCatalog(p, "legacy_import", "snapshots")
       PROVE  MigrationInv' /\ Advances
  BY <1>14, ImportCatalogKeeps
<1>15. ASSUME NEW p \in Process, NEW t \in M!Task, M!ImportSnapshot(p, t) \/ M!Work(p, t)
       PROVE  MigrationInv' /\ Advances
  BY <1>15, ImportSnapshotKeeps, WorkKeeps
<1>16. ASSUME NEW p \in Process, M!Ready(p) PROVE MigrationInv' /\ Advances
  <2>1. /\ at[p] = "snapshots" /\ at' = [at EXCEPT ![p] = "ready"] /\ Same
        /\ UNCHANGED <<db, writer, draft, found>>
    BY <1>16 DEF M!Ready, M!Goes, M!Idle, Same
  <2>2. found' = [found EXCEPT ![p] = found[p]]
    BY <2>1, Holder
  <2>3. Placed("ready", found[p], db) /\ "ready" \notin Transaction /\ "snapshots" \notin Transaction
    BY <2>1, Holder DEF Placed, Places, Plain, Transaction
  <2> QED
    BY <2>1, <2>2, <2>3, MovesKeeps
<1>17. CASE UNCHANGED M!vars
  <2>1. MigrationInv'
    BY <1>17 DEF M!vars, MigrationInv, SourcesTyped, Sound, Accounted, Catalogued, From, M!Origin,
                 M!Marked, TableKept, Swapped, PlaceOK, Placed, Databases
  <2> QED
    BY <1>17, <2>1, CountsAreNumbers DEF M!vars, Advances
<1> QED
  BY <1>1, <1>2, <1>3, <1>4, <1>5, <1>6, <1>7, <1>8, <1>9, <1>10, <1>11, <1>12, <1>13, <1>14,
     <1>15, <1>16, <1>17 DEF M!Next

\* Wherever the processes that open the directory are and wherever they died,
\* the database accounts for what was taken over (storage.py, task_catalog.py).
THEOREM MigrationInvariant == M!Spec => []MigrationInv
  BY MigrationInit, MigrationStep, PTL DEF M!Spec

\* What the account says of the sources, the tasks and the workspaces.
LEMMA MigrationShows == MigrationInv => M!TypeOK /\ M!ImportedOnce /\ M!WorkspacesKept
<1> SUFFICES ASSUME MigrationInv PROVE M!TypeOK /\ M!ImportedOnce /\ M!WorkspacesKept
  OBVIOUS
<1>1. M!TypeOK
  BY DEF MigrationInv, SourcesTyped, Sound, Databases, M!TypeOK, Imports
<1>2. M!ImportedOnce
  BY DEF MigrationInv, Sound, Accounted, Catalogued, M!ImportedOnce, M!Had, From, Imports, M!InJson, M!Task
<1>3. M!WorkspacesKept
  BY DEF MigrationInv, TableKept, M!WorkspacesKept
<1> QED
  BY <1>1, <1>2, <1>3

-----------------------------------------------------------------------------
(* The protocols together.  A step of the runtime is a step of one, or none. *)

Everything == <<protocol, vars, migration, selection, hooks, toolbox>>

LEMMA RuntimeSteps ==
  ASSUME [RuntimeNext]_Everything
  PROVE  /\ [Next]_vars /\ [M!Next]_(M!vars) /\ [B!Next]_(B!vars)
         /\ [D!Next]_(D!vars) /\ [T!Next]_(T!vars)
<1>1. CASE RuntimeNext
  BY <1>1 DEF RuntimeNext, vars, migration, selection, hooks, toolbox,
              M!vars, B!vars, B!files, D!vars, T!vars, T!learned, T!installed
<1>2. CASE UNCHANGED Everything
  BY <1>2 DEF Everything, vars, migration, selection, hooks, toolbox,
              M!vars, B!vars, B!files, D!vars, T!vars, T!learned, T!installed
<1> QED
  BY <1>1, <1>2

\* The invariants of the five, together.
RuntimeInv == SessionInv /\ MigrationInv /\ SelectionInv /\ HooksInv /\ ToolsInv

\* Whatever else goes on in the directory, the five invariants hold.
THEOREM RuntimeInvariant == RuntimeSpec => []RuntimeInv
<1>1. RuntimeInit => RuntimeInv
  BY SessionInvInit, MigrationInit, SelectionInit, HooksInit, ToolsInit DEF RuntimeInit, RuntimeInv
<1>2. RuntimeInv /\ [RuntimeNext]_Everything => RuntimeInv'
  <2> SUFFICES ASSUME RuntimeInv, [RuntimeNext]_Everything PROVE RuntimeInv'
    OBVIOUS
  <2>1. SessionInv'
    BY RuntimeSteps, TypesNext, TailNext DEF RuntimeInv, SessionInv
  <2>2. MigrationInv' /\ SelectionInv' /\ HooksInv' /\ ToolsInv'
    BY RuntimeSteps, MigrationStep, SelectionNext, HooksStep, ToolsStep DEF RuntimeInv
  <2> QED
    BY <2>1, <2>2 DEF RuntimeInv
<1> QED
  BY <1>1, <1>2, PTL DEF RuntimeSpec, Everything

\* The variables of each of the five keep their types.
THEOREM RuntimeTypes == RuntimeSpec => []TypesOK
<1>1. RuntimeInv => TypesOK
  BY MigrationShows, SelectionShows, HooksShow DEF RuntimeInv, SessionInv, ToolsInv, TypesOK
<1> QED
  BY <1>1, RuntimeInvariant, PTL

\* Storage, FileSession and TaskCatalog take every older file over once and
\* whole, however many processes start and wherever they die; a task that was
\* removed does not come back, and no workspace is lost.
THEOREM EverySourceImportedOnce == RuntimeSpec => []ImportedOnce
<1>1. RuntimeInv => ImportedOnce
  BY MigrationShows DEF RuntimeInv, ImportedOnce
<1> QED
  BY <1>1, RuntimeInvariant, PTL

\* No import, snapshot or work of any process sets back a record that was
\* committed (TaskCatalog's constructor, create() and its imports).
THEOREM CommittedRecordsStand == RuntimeSpec => RecordsStand
<1>1. RuntimeInv /\ [RuntimeNext]_Everything => [Advances]_(M!vars)
  BY RuntimeSteps, MigrationStep DEF RuntimeInv
<1>2. [Advances]_(M!vars) => [\A t \in M!Task : db'.tasks[t] >= db.tasks[t]]_(M!vars)
  BY DEF Advances
<1> QED
  BY <1>1, <1>2, RuntimeInvariant, PTL DEF RuntimeSpec, Everything, RecordsStand, M!RecordsStand

\* A rollback of bundles.py goes to what was active last before, for any limit
\* of the history, while no activation was cut short.
THEOREM RollbackIsToTheLast == RuntimeSpec => []RollbackGoesBack
<1>1. RuntimeInv => RollbackGoesBack
  BY SelectionShows DEF RuntimeInv, RollbackGoesBack
<1> QED
  BY <1>1, RuntimeInvariant, PTL

\* One process of service.py hands a delivery on once while its window, of any
\* length, has not let it go.
THEOREM DeliveredOnce == RuntimeSpec => []HandedOnOnce
<1>1. RuntimeInv => HandedOnOnce
  BY HooksShow DEF RuntimeInv, HandedOnOnce
<1> QED
  BY <1>1, RuntimeInvariant, PTL

\* Any number of runs that share adaptive-tools.json lose no outcome that was
\* recorded, and none can call an extension that is not there as a whole.
THEOREM SharedToolsAreSound == RuntimeSpec => []ToolsShared
<1>1. RuntimeInv => ToolsShared
  BY DEF RuntimeInv, ToolsInv, ToolsShared
<1> QED
  BY <1>1, RuntimeInvariant, PTL

\* The session of a task is one of the five: what is proved of it holds there.
THEOREM RuntimeIsGapless == RuntimeSpec => []GaplessTail
<1>1. RuntimeInv => GaplessTail
  BY DEF RuntimeInv, SessionInv
<1> QED
  BY <1>1, RuntimeInvariant, PTL
=============================================================================
