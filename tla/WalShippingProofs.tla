------------------------- MODULE WalShippingProofs --------------------------
(***************************************************************************)
(* Theorems about WAL shipping, for every size of a segment, of the queue  *)
(* and of a generation, every number of rounds, frames and generations.    *)
(***************************************************************************)
EXTENDS WalShipping, NaturalsInduction, WellFoundedInduction, TLAPS

\* The segments of all generations, in the bucket or on their way to it, and
\* where a transaction ends.
Known == pending \cup stored
Boundaries == commits \cup {0}

\* A bounded set of natural numbers that is not empty has a largest element.
LEMMA BoundedMax ==
    ASSUME NEW S \in SUBSET Nat, S # {}, NEW b \in Nat, \A x \in S : x <= b
    PROVE  \E m \in S : \A x \in S : x <= m
<1> DEFINE R == {ss \in Nat \X Nat : ss[1] < ss[2]}
           U == {u \in Nat : \A x \in S : x <= u}
<1>1. IsWellFoundedOn(R, Nat)
  BY NatLessThanWellFounded DEF OpToRel
<1>2. U # {} /\ U \subseteq Nat
  OBVIOUS
<1>3. PICK m \in U : \A x \in U : ~(<<x, m>> \in R)
  <2> HIDE DEF R, U
  <2> QED BY <1>1, <1>2, WFMin
<1>4. m \in S
  <2> SUFFICES ASSUME m \notin S PROVE FALSE
    OBVIOUS
  <2>1. m \in Nat /\ \A x \in S : x <= m /\ x # m /\ x \in Nat
    BY <1>3
  <2>2. m # 0 /\ \A x \in S : x <= m - 1
    <3>1. PICK x \in S : TRUE
      OBVIOUS
    <3> QED BY <2>1, <3>1
  <2>3. m - 1 \in U /\ m - 1 < m /\ m - 1 \in Nat
    BY <2>1, <2>2
  <2>4. <<m - 1, m>> \in R
    BY <2>1, <2>3
  <2> QED BY <1>3, <2>3, <2>4
<1> QED BY <1>3, <1>4

-----------------------------------------------------------------------------
(* What a capture does to the generation and to the queue.                 *)

\* Nothing.
Kept == gen' = gen /\ pending' = pending

\* The generation takes no more segments.
Abandoned ==
    /\ gen' \in Generation
    /\ gen'.id = gen.id /\ gen'.base = gen.base
    /\ gen.id # 0 /\ gen'.broken
    /\ pending' \subseteq pending

\* What was read is its next segment.
NextSegment == [gen |-> gen.id, seq |-> gen.nextSeq, from |-> ReadFrom, to |-> ReadTo]
Extended ==
    /\ Usable(gen) /\ ~Reset /\ ReadFrom <= ReadTo
    /\ gen' \in Generation
    /\ gen'.id = gen.id /\ gen'.base = gen.base /\ gen'.broken = gen.broken
    /\ gen'.nextSeq = gen.nextSeq + 1 /\ gen'.read = ReadTo
    /\ pending' = pending \cup {NextSegment}

LEMMA MarkBrokenFacts ==
    ASSUME NEW g \in Generation
    PROVE  /\ MarkBroken(g) \in Generation
           /\ MarkBroken(g).id = g.id /\ MarkBroken(g).base = g.base
           /\ g.id # 0 => MarkBroken(g).broken
           /\ ~Usable(MarkBroken(g))
BY DEF MarkBroken, Generation, Usable

\* A generation with one more segment.
LEMMA CountedFacts ==
    ASSUME NEW g \in Generation, NEW to \in Nat
    PROVE  LET counted == [g EXCEPT !.nextSeq = @ + 1, !.read = to]
           IN  /\ counted \in Generation
               /\ counted.id = g.id /\ counted.base = g.base
               /\ counted.broken = g.broken
               /\ counted.nextSeq = g.nextSeq + 1 /\ counted.read = to
<1>1. g.nextSeq \in Nat /\ g.nextSeq + 1 \in Nat
  BY DEF Generation
<1> DEFINE n == g.nextSeq + 1
<1>2. [g EXCEPT !.nextSeq = @ + 1, !.read = to] = [g EXCEPT !.nextSeq = n, !.read = to]
  BY DEF Generation
<1>3. n \in Nat
  BY <1>1
<1> HIDE DEF n
<1> QED BY <1>2, <1>3 DEF Generation, n

\* Where capture reads.
LEMMA ReadingTypes ==
    ASSUME TypeOK
    PROVE  /\ ReadFrom \in Nat /\ ReadTo \in Int /\ ReadTo <= end
           /\ ReadFrom <= end + 1 => ReadTo \in Nat /\ ReadFrom <= ReadTo + 1
           /\ ReadFrom <= end + 1 /\ ReadFrom > ReadTo => ReadFrom = end + 1 /\ Drained
           /\ ReadFrom <= ReadTo => ReadTo \in Nat
<1>1. ReadFrom \in Nat
  BY DEF ReadFrom, CursorGone, TypeOK
<1> QED BY <1>1, LimitsAssumption DEF ReadTo, Drained, TypeOK

\* queue_segments on the generation, or on what a truncation made of it.
LEMMA QueueFacts ==
    ASSUME TypeOK, Usable(gen), ~Reset, NEW g \in {gen, MarkBroken(gen)},
           Queue(g, ReadFrom, ReadTo)
    PROVE  \/ Kept /\ g = gen /\ ReadFrom > ReadTo
           \/ Abandoned
           \/ Extended /\ g = gen
<1>0. gen \in Generation /\ gen.id # 0 /\ ~gen.broken
  BY DEF TypeOK, Usable
<1>1. CASE g = MarkBroken(gen)
  <2>1. ~Usable(g) /\ g \in Generation /\ g.id = gen.id /\ g.base = gen.base /\ g.broken
    BY <1>0, <1>1, MarkBrokenFacts
  <2>2. gen' = g /\ pending' = pending
    BY <2>1 DEF Queue
  <2> QED BY <1>0, <2>1, <2>2 DEF Abandoned
<1>2. CASE g = gen
  <2> DEFINE counted == [gen EXCEPT !.nextSeq = @ + 1, !.read = ReadTo]
  <2>1. CASE ReadFrom > ReadTo /\ gen' = gen /\ pending' = pending
    BY <1>2, <2>1 DEF Kept
  <2>2. ASSUME ReadFrom <= ReadTo
        PROVE  /\ counted \in Generation
               /\ counted.id = gen.id /\ counted.base = gen.base
               /\ counted.broken = gen.broken
               /\ counted.nextSeq = gen.nextSeq + 1 /\ counted.read = ReadTo
    BY <1>0, <2>2, ReadingTypes, CountedFacts
  <2>3. CASE ReadFrom <= ReadTo /\ gen' = counted /\ pending' = pending \cup {NextSegment}
    <3> HIDE DEF counted
    <3> QED BY <1>2, <2>2, <2>3 DEF Extended
  <2>4. CASE /\ ReadFrom <= ReadTo /\ gen' = MarkBroken(counted)
             /\ pending' = pending \ OfGeneration(pending, gen.id)
    <3> HIDE DEF counted
    <3> QED BY <1>0, <2>2, <2>4, MarkBrokenFacts DEF Abandoned
  <2>5. CASE gen' = MarkBroken(gen) /\ pending' = pending
    BY <1>0, <2>5, MarkBrokenFacts DEF Abandoned
  <2>6. \/ ReadFrom > ReadTo /\ gen' = gen /\ pending' = pending
        \/ ReadFrom <= ReadTo /\ gen' = counted /\ pending' = pending \cup {NextSegment}
        \/ /\ ReadFrom <= ReadTo /\ gen' = MarkBroken(counted)
           /\ pending' = pending \ OfGeneration(pending, gen.id)
        \/ gen' = MarkBroken(gen) /\ pending' = pending
    BY <1>2 DEF Queue, NextSegment
  <2> QED BY <2>1, <2>3, <2>4, <2>5, <2>6
<1> QED BY <1>1, <1>2

\* Where a capture goes next.
LEMMA ProceedFacts ==
    ASSUME TypeOK, NEW rotated \in BOOLEAN, NEW whole \in BOOLEAN, NEW stuck \in BOOLEAN,
           Proceed(rotated, whole, stuck)
    PROVE  /\ cycle' \in [at : Steps, final : BOOLEAN, round : Nat, again : BOOLEAN,
                          whole : BOOLEAN]
           /\ cycle'.at = (IF rotated THEN "start" ELSE "upload")
           /\ cycle'.whole = whole
<1> DEFINE at == IF rotated THEN "start" ELSE "upload"
           again == ~whole /\ ~stuck /\ cycle.round + 1 < MaxRounds
           round == cycle.round + 1
<1>0. cycle \in [at : Steps, final : BOOLEAN, round : Nat, again : BOOLEAN, whole : BOOLEAN]
  BY DEF TypeOK
<1>1. at \in Steps /\ again \in BOOLEAN
  BY DEF Steps
<1>2. round \in Nat
  BY <1>0
<1>3. cycle' = [at |-> at, final |-> cycle.final, round |-> round, again |-> again,
                whole |-> whole]
  BY <1>0 DEF Proceed
<1> HIDE DEF again, round
<1> QED BY <1>0, <1>1, <1>2, <1>3

\* Everything capture can do, apart from the cursor.
CaptureEffect ==
    /\ cycle.at = "capture"
    /\ end' = end /\ commits' = commits /\ file' \in file .. end
    /\ stored' = stored /\ base' = base /\ content' = content /\ shipped' = shipped
    /\ Kept \/ Abandoned \/ Extended
    /\ cycle'.at \in {"start", "upload"}
    /\ cycle'.at = "start" => file' = end

LEMMA CaptureFacts ==
    ASSUME TypeOK, file <= end, Capture
    PROVE  TypeOK' /\ CaptureEffect
<1>0. /\ cycle.at = "capture" /\ stored' = stored /\ base' = base /\ content' = content
      /\ shipped' = shipped
      /\ gen \in Generation /\ file \in Nat /\ end \in Nat /\ first \in Nat
      /\ cursor \in Nat /\ restarted \in BOOLEAN /\ restartOk \in BOOLEAN
  BY DEF Capture, TypeOK, bucket
<1> DEFINE Sql == /\ end' = end /\ commits' = commits /\ file' \in file .. end
                  /\ first' \in Nat /\ cursor' \in Nat
                  /\ restarted' \in BOOLEAN /\ restartOk' \in BOOLEAN
           Flow == /\ cycle' \in [at : Steps, final : BOOLEAN, round : Nat,
                                  again : BOOLEAN, whole : BOOLEAN]
                   /\ cycle'.at \in {"start", "upload"}
                   /\ cycle'.at = "start" => file' = end
           Made == Kept \/ Abandoned \/ Extended
<1>1. ASSUME Truncated PROVE Sql /\ file' = end
  <2>1. restarted' \in BOOLEAN /\ restartOk' \in BOOLEAN
    BY <1>1 DEF Truncated
  <2>2. /\ end' = end /\ commits' = commits /\ file' = end
        /\ first' = end + 1 /\ cursor' = 0
    BY <1>1 DEF Truncated
  <2> QED BY <1>0, <2>1, <2>2
<1>2. ASSUME Busy \/ UNCHANGED sqlite
      PROVE end' = end /\ commits' = commits /\ file' \in file .. end /\ first' \in Nat
  BY <1>0, <1>2 DEF Busy, sqlite
<1>3. /\ RotationWanted(cycle.final) \in BOOLEAN
      /\ Drained \in BOOLEAN /\ Progressed \in BOOLEAN
      /\ \A b \in BOOLEAN : RestartAllowed(b) \in BOOLEAN
  BY DEF RotationWanted, Drained, Progressed, RestartAllowed
<1>4. ASSUME Advance PROVE cursor' \in Nat /\ restarted' \in BOOLEAN
  <2>1. first <= end => ReadTo + 1 \in Nat
    <3> SUFFICES ASSUME first <= end PROVE ReadTo + 1 \in Nat
      OBVIOUS
    <3>1. ReadFrom \in Nat
      BY ReadingTypes
    <3> QED BY <1>0, <3>1, LimitsAssumption DEF ReadTo
  <2>2. restarted' \in BOOLEAN /\ cursor' = IF first > end THEN 0 ELSE ReadTo + 1
    BY <1>4 DEF Advance
  <2> QED BY <1>0, <2>1, <2>2
<1>5. ASSUME CaptureNothing PROVE Sql /\ Flow /\ Made
  <2>1. Made
    BY <1>5 DEF CaptureNothing, Kept
  <2>2. CASE Truncated /\ Proceed(TRUE, TRUE, FALSE)
    <3>1. Sql /\ Flow
      BY <1>1, <2>2, ProceedFacts
    <3> QED BY <2>1, <3>1
  <2>3. CASE Busy /\ UNCHANGED reading /\ Proceed(FALSE, FALSE, TRUE)
    <3>1. Sql /\ Flow
      BY <1>0, <1>2, <2>3, ProceedFacts DEF reading
    <3> QED BY <2>1, <3>1
  <2> QED BY <1>5, <2>2, <2>3 DEF CaptureNothing
<1>6. ASSUME CaptureReset PROVE Sql /\ Flow /\ Made
  <2>1. Made
    BY <1>0, <1>6, MarkBrokenFacts DEF CaptureReset, Usable, Abandoned
  <2>2. CASE Truncated /\ Proceed(TRUE, TRUE, FALSE)
    <3>1. Sql /\ Flow
      BY <1>1, <2>2, ProceedFacts
    <3> QED BY <2>1, <3>1
  <2>3. CASE /\ Busy \/ UNCHANGED sqlite
             /\ cursor' = 0 /\ restarted' = FALSE /\ restartOk' = FALSE
             /\ Proceed(FALSE, FALSE, FALSE)
    <3>1. Sql /\ Flow
      BY <1>0, <1>2, <2>3, ProceedFacts
    <3> QED BY <2>1, <3>1
  <2> QED BY <1>6, <2>2, <2>3 DEF CaptureReset
<1>7. ASSUME CaptureFrames PROVE Sql /\ Flow /\ Made
  <2> DEFINE rotate == RotationWanted(cycle.final)
  <2>1. rotate \in BOOLEAN /\ Usable(gen) /\ ~Reset
    BY <1>3, <1>7 DEF CaptureFrames
  <2>2. CASE Truncated /\ Queue(Truncating, ReadFrom, ReadTo) /\ Proceed(rotate, TRUE, FALSE)
    <3>1. Made
      BY <2>1, <2>2, QueueFacts DEF Truncating
    <3>2. Sql /\ Flow
      <4> HIDE DEF rotate
      <4> QED BY <1>1, <2>1, <2>2, ProceedFacts
    <3> QED BY <3>1, <3>2
  <2>3. CASE /\ Busy \/ UNCHANGED sqlite
             /\ Advance
             /\ \E b \in BOOLEAN : restartOk' = RestartAllowed(b)
             /\ Queue(gen, ReadFrom, ReadTo)
             /\ Proceed(FALSE, Drained, ~Progressed)
    <3>1. Made
      BY <2>1, <2>3, QueueFacts
    <3>2. Sql
      BY <1>2, <1>3, <1>4, <2>3
    <3>3. Flow
      BY <1>3, <2>3, ProceedFacts
    <3> QED BY <3>1, <3>2, <3>3
  <2>4. \/ Truncated /\ Queue(Truncating, ReadFrom, ReadTo) /\ Proceed(rotate, TRUE, FALSE)
        \/ /\ Busy \/ UNCHANGED sqlite
           /\ Advance
           /\ \E b \in BOOLEAN : restartOk' = RestartAllowed(b)
           /\ Queue(gen, ReadFrom, ReadTo)
           /\ Proceed(FALSE, Drained, ~Progressed)
    BY <1>7 DEF CaptureFrames
  <2> QED BY <2>2, <2>3, <2>4
<1>8. Sql /\ Flow /\ Made
  BY <1>5, <1>6, <1>7 DEF Capture
<1>9. gen' \in Generation /\ pending' \subseteq Segment
  <2>1. ASSUME Extended PROVE NextSegment \in Segment
    <3>1. ReadFrom \in Nat /\ ReadTo \in Nat
      BY <2>1, ReadingTypes DEF Extended
    <3> QED BY <1>0, <3>1 DEF NextSegment, Segment, Generation
  <2> QED BY <1>0, <1>8, <2>1 DEF Kept, Abandoned, Extended, TypeOK
<1>10. TypeOK'
  BY <1>0, <1>8, <1>9 DEF TypeOK
<1> QED BY <1>0, <1>8, <1>10 DEF CaptureEffect

-----------------------------------------------------------------------------
(* The log that a restore gives.                                           *)

\* The bases of the generations are ends of transactions, each at least as
\* late as those before it and as all that older generations have; the copy
\* a new one is made from is too.
LogInv ==
    /\ TypeOK
    /\ commits \subseteq 1 .. end /\ end \in Boundaries /\ file <= end
    /\ gen.id <= MaxGenerations /\ base.gen <= gen.id
    /\ \A x \in Known : x.gen <= gen.id /\ x.to <= end
    /\ \A x \in Known : x.gen < gen.id => x.to <= content[gen.id]
    /\ \A g \in 0 .. MaxGenerations : content[g] \in Boundaries
    /\ \A g \in 0 .. gen.id : content[g] <= content[gen.id]
    /\ content[0] = 0
    /\ base.content = content[base.gen]
    /\ gen.base = "published" => base.gen = gen.id
    /\ cycle.at = "clean" => gen.base = "published"
    /\ cycle.at = "start" =>
          /\ file \in Boundaries /\ content[gen.id] <= file
          /\ \A x \in Known : x.to <= file

LEMMA LogInvInit == Init => LogInv
<1> SUFFICES ASSUME Init PROVE LogInv
  OBVIOUS
<1>1. NoGeneration \in Generation
  BY DEF NoGeneration, Generation
<1>2. TypeOK
  BY <1>1, LimitsAssumption DEF Init, TypeOK, Idle, Steps
<1>3. gen.id = 0 /\ gen.base = "none" /\ cycle.at = "idle" /\ Known = {}
  BY DEF Init, NoGeneration, Idle, Known
<1>4. content[0] = 0 /\ \A g \in 0 .. MaxGenerations : content[g] = 0
  BY LimitsAssumption DEF Init
<1> QED BY <1>2, <1>3, <1>4, LimitsAssumption DEF Init, LogInv, Boundaries

LEMMA LogInvCommit ==
    ASSUME LogInv, NEW n \in 1 .. MaxFrames, Commit(n)
    PROVE  LogInv'
<1>1. /\ end' = end + n /\ commits' = commits \cup {end + n}
      /\ file' = file /\ gen' = gen /\ cursor' = cursor /\ restartOk' = restartOk
      /\ pending' = pending /\ stored' = stored /\ base' = base /\ content' = content
      /\ cycle' = cycle /\ shipped' = shipped
  BY DEF Commit, bucket
<1>2. first' \in Nat /\ restarted' \in BOOLEAN
  <2>1. \/ first' = first /\ restarted' = restarted
        \/ first' = end + 1 /\ restarted' = TRUE
    BY DEF Commit
  <2>2. first \in Nat /\ end \in Nat /\ restarted \in BOOLEAN
    BY DEF LogInv, TypeOK
  <2>3. first' \in Nat
    BY <2>1, <2>2
  <2> QED BY <2>1, <2>2, <2>3
<1>3. TypeOK'
  BY <1>1, <1>2, LimitsAssumption DEF LogInv, TypeOK
<1>4. /\ Known' = Known /\ Boundaries \subseteq Boundaries'
      /\ end' \in Boundaries' /\ commits' \subseteq 1 .. end' /\ end <= end'
  BY <1>1, LimitsAssumption DEF LogInv, TypeOK, Known, Boundaries
<1>5. \A x \in Known : x.to \in Nat /\ end' \in Nat /\ end \in Nat
  BY <1>3 DEF LogInv, TypeOK, Known, Segment
<1> QED BY <1>1, <1>3, <1>4, <1>5 DEF LogInv, TypeOK

LEMMA LogInvCapture ==
    ASSUME LogInv, Capture
    PROVE  LogInv'
<1>1. TypeOK' /\ CaptureEffect
  BY CaptureFacts DEF LogInv
<1>2. gen'.id = gen.id /\ gen'.base = gen.base
  BY <1>1 DEF CaptureEffect, Kept, Abandoned, Extended
<1>3. \A x \in Known' : x \in Known \/ (x.gen = gen.id /\ x.to = ReadTo)
  BY <1>1 DEF CaptureEffect, Kept, Abandoned, Extended, Known, NextSegment
<1>4. ReadTo <= end /\ \A x \in Known' : x.to \in Nat /\ x.gen \in Nat
  BY <1>1, ReadingTypes DEF LogInv, TypeOK, Known, Segment
<1>5. end \in Nat /\ file \in Nat /\ gen.id \in Nat /\ content[gen.id] \in Boundaries
  BY DEF LogInv, TypeOK, Generation
<1>6. content[gen.id] <= end
  <2>1. \A c \in Boundaries : c <= end
    BY <1>5 DEF LogInv, Boundaries
  <2> QED BY <1>5, <2>1
<1>7. /\ Boundaries' = Boundaries /\ end' = end /\ commits' = commits /\ file' <= end
      /\ base' = base /\ content' = content /\ cycle'.at # "clean"
      /\ cycle'.at = "start" => file' = end
  BY <1>1, <1>5 DEF CaptureEffect, Boundaries
<1>8. \A x \in Known' : x.gen <= gen.id /\ x.to <= end
  BY <1>3, <1>4, <1>5 DEF LogInv
<1>9. \A x \in Known' : x.gen < gen.id => x.to <= content[gen.id]
  BY <1>3, <1>5 DEF LogInv
<1> QED BY <1>1, <1>2, <1>5, <1>6, <1>7, <1>8, <1>9 DEF LogInv

LEMMA LogInvStart ==
    ASSUME LogInv, StartGeneration
    PROVE  LogInv'
<1>1. /\ cycle.at = "start" /\ gen.id < MaxGenerations
      /\ gen' = [NoGeneration EXCEPT !.id = gen.id + 1, !.base = "local", !.read = file]
      /\ content' = [content EXCEPT ![gen.id + 1] = file]
      /\ cycle' = [cycle EXCEPT !.at = "upload"] /\ shipped' = shipped
      /\ end' = end /\ commits' = commits /\ file' = file /\ first' = first
      /\ cursor' = cursor /\ restarted' = restarted /\ restartOk' = restartOk
      /\ pending' = pending /\ stored' = stored /\ base' = base
  BY DEF StartGeneration, GoTo, sqlite, reading, bucket
<1>2. /\ gen.id \in Nat /\ gen.id + 1 \in 0 .. MaxGenerations
      /\ file \in Nat /\ end \in Nat /\ base.gen \in Nat
      /\ \A x \in Known : x.gen \in Nat /\ x.to \in Nat
      /\ \A g \in 0 .. MaxGenerations : content[g] \in Nat
  <2>1. gen.id \in Nat /\ file \in Nat /\ end \in Nat /\ base.gen \in Nat
    BY DEF LogInv, TypeOK, Generation
  <2>2. \A x \in Known : x.gen \in Nat /\ x.to \in Nat
    BY DEF LogInv, TypeOK, Known, Segment
  <2>3. \A g \in 0 .. MaxGenerations : content[g] \in Nat
    BY DEF LogInv, TypeOK
  <2> QED BY <1>1, <2>1, <2>2, <2>3, LimitsAssumption
<1>3. gen' \in Generation /\ gen'.id = gen.id + 1 /\ gen'.base = "local"
  <2>1. gen' = [id |-> gen.id + 1, base |-> "local", broken |-> FALSE,
                nextSeq |-> 0, read |-> file, segments |-> 0]
    BY <1>1 DEF NoGeneration
  <2> QED BY <1>2, <2>1 DEF Generation
<1>4. /\ content' \in [0 .. MaxGenerations -> Nat] /\ content'[gen.id + 1] = file
      /\ \A g \in 0 .. MaxGenerations : g # gen.id + 1 => content'[g] = content[g]
  BY <1>1, <1>2 DEF LogInv, TypeOK
<1>5. TypeOK' /\ cycle'.at = "upload"
  BY <1>1, <1>3, <1>4 DEF LogInv, TypeOK, Steps
<1>6. Known' = Known /\ Boundaries' = Boundaries
  BY <1>1 DEF Known, Boundaries
<1>7. \A x \in Known : x.gen <= gen.id + 1 /\ x.to <= file
  BY <1>1, <1>2 DEF LogInv
<1>8. \A g \in 0 .. gen.id + 1 : content'[g] <= file
  <2> TAKE g \in 0 .. gen.id + 1
  <2>1. CASE g = gen.id + 1
    BY <1>2, <1>4, <2>1
  <2>2. CASE g \in 0 .. gen.id
    <3>1. /\ content'[g] = content[g] /\ content[g] <= content[gen.id]
          /\ content[gen.id] <= file
      BY <1>1, <1>2, <1>4, <2>2, LimitsAssumption DEF LogInv
    <3>2. content[g] \in Nat /\ content[gen.id] \in Nat
      BY <1>1, <1>2, <2>2, LimitsAssumption
    <3> QED BY <1>2, <3>1, <3>2
  <2> QED BY <1>2, <2>1, <2>2
<1>9. \A g \in 0 .. MaxGenerations : content'[g] \in Boundaries
  BY <1>1, <1>4 DEF LogInv
<1>10. content'[0] = 0 /\ content'[base.gen] = content[base.gen]
  BY <1>1, <1>2, <1>4, LimitsAssumption DEF LogInv
<1>11. base.gen <= gen.id + 1
  BY <1>2 DEF LogInv
<1> QED BY <1>1, <1>2, <1>3, <1>4, <1>5, <1>6, <1>7, <1>8, <1>9, <1>10, <1>11 DEF LogInv

\* What the steps of ship do that neither capture nor start a generation.
ThisBase == [gen |-> gen.id, content |-> content[gen.id]]
ShipEffect ==
    /\ end' = end /\ commits' = commits /\ content' = content /\ first' = first
    /\ cursor' = cursor /\ restarted' = restarted /\ restartOk' = restartOk
    /\ file' = file \/ (TruncateMayFail /\ file' = end)
    /\ gen'.id = gen.id /\ gen'.read = gen.read /\ gen'.nextSeq = gen.nextSeq
    /\ gen.broken => gen'.broken
    /\ \/ gen'.base = gen.base
       \/ gen'.base = "published" /\ base' = ThisBase
    /\ base' \in {base, ThisBase}
    /\ Known' \subseteq Known
    /\ Usable(gen') => \A x \in Known : x.gen = gen.id => x \in Known'
    /\ cycle'.at # "start"
    /\ cycle'.at = "clean" =>
          /\ gen'.base = "published"
          /\ pending' = {} \/ (cycle.at = "clean" /\ pending' = pending)
    /\ cycle'.whole /\ cycle'.at \in {"upload", "clean"} =>
          cycle.whole /\ cycle.at \in {"upload", "clean"}
    /\ shipped'.upTo = shipped.upTo \/ (shipped'.upTo = end /\ cycle'.at = "capture")
    /\ shipped'.result = "whole" =>
          \/ shipped.result = "whole" /\ cycle.at # "idle"
          \/ cycle.whole /\ cycle'.at = "idle" /\ (NothingToPublish \/ EndClean)

Cycle == [at : Steps, final : BOOLEAN, round : Nat, again : BOOLEAN, whole : BOOLEAN]
Shipped == [result : {"none", "running", "whole", "part", "error"},
            final : BOOLEAN, upTo : Nat]

\* GoTo and Return.
LEMMA GoToFacts ==
    ASSUME TypeOK, NEW step \in Steps, GoTo(step)
    PROVE  /\ cycle' \in Cycle /\ cycle'.at = step /\ cycle'.whole = cycle.whole
           /\ shipped' = shipped
BY DEF GoTo, TypeOK, Cycle

LEMMA ReturnFacts ==
    ASSUME TypeOK, NEW result \in {"whole", "part", "error"}, Return(result)
    PROVE  /\ cycle' \in Cycle /\ cycle'.at = "idle"
           /\ shipped' \in Shipped /\ shipped'.result = result
           /\ shipped'.upTo = shipped.upTo
BY DEF Return, TypeOK, Cycle, Shipped, Idle, Steps

LEMMA EndRoundFacts ==
    ASSUME TypeOK, EndRound
    PROVE  /\ cycle' \in Cycle /\ cycle'.at \in {"capture", "idle"}
           /\ shipped' \in Shipped /\ shipped'.upTo = shipped.upTo
           /\ shipped'.result = "whole" =>
                 \/ shipped' = shipped
                 \/ cycle.whole /\ cycle'.at = "idle"
<1>1. CASE GoTo("capture")
  BY <1>1, GoToFacts DEF TypeOK, Shipped, Steps
<1>2. CASE Return(IF cycle.whole THEN "whole" ELSE "part")
  <2>1. CASE cycle.whole
    BY <1>2, <2>1, ReturnFacts
  <2>2. CASE ~cycle.whole
    BY <1>2, <2>2, ReturnFacts
  <2> QED BY <2>1, <2>2
<1> QED BY <1>1, <1>2 DEF EndRound

\* When a step changes nothing of the shipper, the queue and the bucket but
\* perhaps the base.
LEMMA EffectOfReturning ==
    ASSUME TypeOK, cycle' \in Cycle, shipped' \in Shipped,
           UNCHANGED <<end, commits, first, gen, reading, pending, stored, content>>,
           file' = file \/ (TruncateMayFail /\ file' = end),
           base' \in {base, ThisBase}, ThisBase \in [gen : Nat, content : Nat],
           cycle'.at \in {"idle", "capture"},
           shipped'.upTo = shipped.upTo \/ (shipped'.upTo = end /\ cycle'.at = "capture"),
           shipped'.result = "whole" =>
              \/ shipped.result = "whole" /\ cycle.at # "idle"
              \/ cycle.whole /\ cycle'.at = "idle" /\ (NothingToPublish \/ EndClean)
    PROVE  TypeOK' /\ ShipEffect
<1>1. /\ end' = end /\ commits' = commits /\ first' = first /\ gen' = gen
      /\ cursor' = cursor /\ restarted' = restarted /\ restartOk' = restartOk
      /\ pending' = pending /\ stored' = stored /\ content' = content
  BY DEF reading
<1>2. TypeOK'
  BY <1>1 DEF TypeOK, Cycle, Shipped
<1>3. Known' = Known
  BY <1>1 DEF Known
<1> QED BY <1>1, <1>2, <1>3 DEF ShipEffect

LEMMA ThisBaseType ==
    ASSUME LogInv
    PROVE  /\ ThisBase \in [gen : Nat, content : Nat]
           /\ ThisBase.gen = gen.id /\ ThisBase.content = content[gen.id]
           /\ gen.id \in 0 .. MaxGenerations
<1>1. gen.id \in Nat /\ gen.id <= MaxGenerations /\ content \in [0 .. MaxGenerations -> Nat]
  BY DEF LogInv, TypeOK, Generation
<1>2. gen.id \in 0 .. MaxGenerations
  BY <1>1, LimitsAssumption
<1>3. content[gen.id] \in Nat
  BY <1>1, <1>2
<1> QED BY <1>1, <1>2, <1>3 DEF ThisBase

LEMMA CaptureFailsEffect ==
    ASSUME LogInv, CaptureFails
    PROVE  TypeOK' /\ ShipEffect
<1>1. TypeOK /\ cycle.at = "capture" /\ Return("error")
  BY DEF LogInv, CaptureFails
<1>2. /\ UNCHANGED <<end, commits, first, gen, reading, pending, stored, base, content>>
      /\ file' = file \/ (TruncateMayFail /\ file' = end)
  BY DEF CaptureFails, bucket
<1> QED BY <1>1, <1>2, ThisBaseType, ReturnFacts, EffectOfReturning

LEMMA BeginShipEffect ==
    ASSUME LogInv, NEW final \in BOOLEAN, BeginShip(final)
    PROVE  TypeOK' /\ ShipEffect
<1>1. /\ cycle' = [at |-> "capture", final |-> final, round |-> 0, again |-> FALSE,
                   whole |-> FALSE]
      /\ shipped' = [result |-> "running", final |-> final, upTo |-> end]
  BY DEF BeginShip, Idle
<1>2. /\ UNCHANGED <<end, commits, first, gen, reading, pending, stored, base, content>>
      /\ file' = file
  BY DEF BeginShip, bucket, sqlite
<1>3. TypeOK /\ end \in Nat
  BY DEF LogInv, TypeOK
<1>4. /\ cycle' \in Cycle /\ cycle'.at = "capture"
      /\ shipped' \in Shipped /\ shipped'.upTo = end /\ shipped'.result = "running"
  BY <1>1, <1>3 DEF Cycle, Shipped, Steps
<1> QED BY <1>2, <1>3, <1>4, ThisBaseType, EffectOfReturning

\* When the generation keeps what it has been given.
LEMMA BrokenKeeps ==
    ASSUME TypeOK
    PROVE  /\ MarkBroken(gen) \in Generation
           /\ MarkBroken(gen).id = gen.id /\ MarkBroken(gen).base = gen.base
           /\ MarkBroken(gen).read = gen.read /\ MarkBroken(gen).nextSeq = gen.nextSeq
           /\ gen.broken => MarkBroken(gen).broken
           /\ ~Usable(MarkBroken(gen))
BY DEF TypeOK, MarkBroken, Generation, Usable

LEMMA StartGenerationFailsEffect ==
    ASSUME LogInv, StartGenerationFails
    PROVE  TypeOK' /\ ShipEffect
<1>1. TypeOK /\ cycle.at = "start" /\ Return("error")
  BY DEF LogInv, StartGenerationFails
<1>2. /\ UNCHANGED <<end, commits, file, first, cursor, restarted, restartOk, pending,
                     stored, base, content>>
      /\ gen' \in {gen, MarkBroken(gen)}
  BY DEF StartGenerationFails, bucket, sqlite, reading
<1>3. /\ gen' \in Generation /\ gen'.id = gen.id /\ gen'.base = gen.base
      /\ gen'.read = gen.read /\ gen'.nextSeq = gen.nextSeq
      /\ gen.broken => gen'.broken
  BY <1>1, <1>2, BrokenKeeps DEF TypeOK
<1>4. /\ cycle' \in Cycle /\ cycle'.at = "idle" /\ shipped' \in Shipped
      /\ shipped'.result = "error" /\ shipped'.upTo = shipped.upTo
  BY <1>1, ReturnFacts
<1>5. TypeOK'
  BY <1>1, <1>2, <1>3, <1>4 DEF TypeOK, Cycle, Shipped
<1>6. Known' = Known
  BY <1>2 DEF Known
<1> QED BY <1>2, <1>3, <1>4, <1>5, <1>6 DEF ShipEffect

LEMMA PutSegmentEffect ==
    ASSUME LogInv, PutSegment
    PROVE  TypeOK' /\ ShipEffect
<1>1. PICK x \in pending :
          /\ stored' = IF Superseded(x) THEN stored ELSE stored \cup {x}
          /\ Pop(x)
  BY DEF PutSegment
<1>2. /\ UNCHANGED <<end, commits, file, first, cursor, restarted, restartOk,
                     base, content, cycle, shipped>>
      /\ cycle.at = "upload"
  BY DEF PutSegment, sqlite, reading
<1>3. TypeOK
  BY DEF LogInv
<1>4. /\ gen' \in Generation /\ gen'.id = gen.id /\ gen'.base = gen.base
      /\ gen'.read = gen.read /\ gen'.nextSeq = gen.nextSeq
      /\ gen'.broken = gen.broken
  <2>1. gen \in Generation /\ gen.segments + 1 \in Nat
    BY <1>3 DEF TypeOK, Generation
  <2>2. gen' = gen \/ gen' = [gen EXCEPT !.segments = gen.segments + 1]
    BY <1>1, <2>1 DEF Pop, Generation
  <2> QED BY <2>1, <2>2 DEF Generation
<1>5. pending' = pending \ {x} /\ stored' \in {stored, stored \cup {x}}
  BY <1>1 DEF Pop
<1>6. TypeOK'
  BY <1>2, <1>3, <1>4, <1>5 DEF TypeOK
<1>7. Known' \subseteq Known
  BY <1>1, <1>5 DEF Known
<1>8. \A y \in Known : y.gen = gen.id => y \in Known'
  BY <1>1, <1>5 DEF Known, Superseded
<1> QED BY <1>2, <1>4, <1>6, <1>7, <1>8 DEF ShipEffect

LEMMA PutSegmentFailsEffect ==
    ASSUME LogInv, PutSegmentFails
    PROVE  TypeOK' /\ ShipEffect
<1>1. PICK x \in pending : stored' \in {stored, stored \cup {x}}
  BY DEF PutSegmentFails
<1>2. /\ UNCHANGED <<end, commits, file, first, gen, cursor, restarted, restartOk, pending,
                     base, content>>
      /\ cycle.at = "upload" /\ Return("error")
  BY DEF PutSegmentFails, sqlite, reading
<1>3. TypeOK
  BY DEF LogInv
<1>4. /\ cycle' \in Cycle /\ cycle'.at = "idle" /\ shipped' \in Shipped
      /\ shipped'.result = "error" /\ shipped'.upTo = shipped.upTo
  BY <1>2, <1>3, ReturnFacts
<1>5. TypeOK'
  BY <1>1, <1>2, <1>3, <1>4 DEF TypeOK, Cycle, Shipped
<1>6. Known' = Known
  BY <1>1, <1>2 DEF Known
<1> QED BY <1>2, <1>4, <1>5, <1>6 DEF ShipEffect

LEMMA PutSegmentConflictEffect ==
    ASSUME LogInv, PutSegmentConflict
    PROVE  TypeOK' /\ ShipEffect
<1>1. PICK x \in pending :
          /\ gen' = IF x.gen = gen.id THEN MarkBroken(gen) ELSE gen
          /\ pending' = pending \ OfGeneration(pending, x.gen)
  BY DEF PutSegmentConflict
<1>2. /\ UNCHANGED <<end, commits, file, first, cursor, restarted, restartOk,
                     stored, base, content>>
      /\ cycle.at = "upload" /\ Return("error")
  BY DEF PutSegmentConflict, sqlite, reading, bucket
<1>3. TypeOK
  BY DEF LogInv
<1>4. /\ gen' \in Generation /\ gen'.id = gen.id /\ gen'.base = gen.base
      /\ gen'.read = gen.read /\ gen'.nextSeq = gen.nextSeq
      /\ gen.broken => gen'.broken
      /\ Usable(gen') => x.gen # gen.id
  BY <1>1, <1>3, BrokenKeeps DEF TypeOK
<1>5. /\ cycle' \in Cycle /\ cycle'.at = "idle" /\ shipped' \in Shipped
      /\ shipped'.result = "error" /\ shipped'.upTo = shipped.upTo
  BY <1>2, <1>3, ReturnFacts
<1>6. TypeOK'
  BY <1>1, <1>2, <1>3, <1>4, <1>5 DEF TypeOK, Cycle, Shipped
<1>7. Known' \subseteq Known
  BY <1>1, <1>2 DEF Known
<1>8. Usable(gen') => \A y \in Known : y.gen = gen.id => y \in Known'
  BY <1>1, <1>2, <1>4 DEF Known, OfGeneration
<1> QED BY <1>2, <1>4, <1>5, <1>6, <1>7, <1>8 DEF ShipEffect

LEMMA NothingToPublishEffect ==
    ASSUME LogInv, NothingToPublish
    PROVE  TypeOK' /\ ShipEffect
<1>1. TypeOK /\ cycle.at = "upload" /\ EndRound
  BY DEF LogInv, NothingToPublish
<1>2. UNCHANGED <<end, commits, file, first, gen, reading, pending, stored, base, content>>
  BY DEF NothingToPublish, sqlite, bucket
<1>3. /\ cycle' \in Cycle /\ cycle'.at \in {"capture", "idle"}
      /\ shipped' \in Shipped /\ shipped'.upTo = shipped.upTo
      /\ shipped'.result = "whole" =>
            shipped' = shipped \/ (cycle.whole /\ cycle'.at = "idle")
  BY <1>1, EndRoundFacts
<1> QED BY <1>1, <1>2, <1>3, ThisBaseType, EffectOfReturning

LEMMA EndCleanEffect ==
    ASSUME LogInv, EndClean
    PROVE  TypeOK' /\ ShipEffect
<1>1. TypeOK /\ cycle.at = "clean" /\ EndRound
  BY DEF LogInv, EndClean
<1>2. UNCHANGED <<end, commits, file, first, gen, reading, pending, stored, base, content>>
  BY DEF EndClean, sqlite, bucket
<1>3. /\ cycle' \in Cycle /\ cycle'.at \in {"capture", "idle"}
      /\ shipped' \in Shipped /\ shipped'.upTo = shipped.upTo
      /\ shipped'.result = "whole" =>
            shipped' = shipped \/ (cycle.whole /\ cycle'.at = "idle")
  BY <1>1, EndRoundFacts
<1> QED BY <1>1, <1>2, <1>3, ThisBaseType, EffectOfReturning

LEMMA PublishFailsEffect ==
    ASSUME LogInv, PublishFails
    PROVE  TypeOK' /\ ShipEffect
<1>1. TypeOK /\ cycle.at = "upload" /\ Return("error") /\ base' \in {base, ThisBase}
  BY DEF LogInv, PublishFails, ThisBase
<1>2. UNCHANGED <<end, commits, file, first, gen, reading, pending, stored, content>>
  BY DEF PublishFails, sqlite
<1> QED BY <1>1, <1>2, ThisBaseType, ReturnFacts, EffectOfReturning

LEMMA PublishBaseEffect ==
    ASSUME LogInv, PublishBase
    PROVE  TypeOK' /\ ShipEffect
<1>1. /\ TypeOK /\ cycle.at = "upload" /\ pending = {} /\ GoTo("clean")
      /\ base' = ThisBase /\ gen' = [gen EXCEPT !.base = "published"]
  BY DEF LogInv, PublishBase, ThisBase
<1>2. UNCHANGED <<end, commits, file, first, cursor, restarted, restartOk, pending,
                  stored, content>>
  BY DEF PublishBase, sqlite, reading
<1>3. /\ gen' \in Generation /\ gen'.id = gen.id /\ gen'.base = "published"
      /\ gen'.read = gen.read /\ gen'.nextSeq = gen.nextSeq
      /\ gen'.broken = gen.broken
  BY <1>1 DEF TypeOK, Generation
<1>4. /\ cycle' \in Cycle /\ cycle'.at = "clean" /\ cycle'.whole = cycle.whole
      /\ shipped' = shipped
  BY <1>1, GoToFacts DEF Steps
<1>5. TypeOK'
  BY <1>1, <1>2, <1>3, <1>4, ThisBaseType DEF TypeOK, Cycle
<1>6. Known' = Known
  BY <1>2 DEF Known
<1> QED BY <1>1, <1>2, <1>3, <1>4, <1>5, <1>6 DEF ShipEffect

LEMMA DeleteStaleEffect ==
    ASSUME LogInv, DeleteStale
    PROVE  TypeOK' /\ ShipEffect
<1>1. PICK x \in stored : x.gen # gen.id /\ stored' = stored \ {x}
  BY DEF DeleteStale, Stale
<1>2. /\ UNCHANGED <<end, commits, file, first, gen, cursor, restarted, restartOk, pending,
                     base, content, cycle, shipped>>
      /\ cycle.at = "clean" /\ gen.base = "published" /\ TypeOK
  BY DEF DeleteStale, sqlite, reading, LogInv
<1>3. TypeOK'
  BY <1>1, <1>2 DEF TypeOK
<1>4. Known' \subseteq Known /\ \A y \in Known : y.gen = gen.id => y \in Known'
  BY <1>1, <1>2 DEF Known
<1> QED BY <1>2, <1>3, <1>4 DEF ShipEffect

\* The steps, as the proofs take them apart.
LEMMA StepCases ==
    ASSUME LogInv, [Next]_vars
    PROVE  \/ UNCHANGED vars
           \/ \E n \in 1 .. MaxFrames : Commit(n)
           \/ Capture
           \/ StartGeneration
           \/ TypeOK' /\ ShipEffect
<1>1. CASE UNCHANGED vars
  BY <1>1
<1>2. CASE Next
  <2>1. CASE ShipStep
    BY <2>1, CaptureFailsEffect, StartGenerationFailsEffect, PutSegmentEffect,
       PutSegmentFailsEffect, PutSegmentConflictEffect, NothingToPublishEffect,
       PublishBaseEffect, PublishFailsEffect, DeleteStaleEffect, EndCleanEffect
    DEF ShipStep
  <2> QED BY <1>2, <2>1, BeginShipEffect DEF Next
<1> QED BY <1>1, <1>2

LEMMA LogInvShip ==
    ASSUME LogInv, TypeOK', ShipEffect
    PROVE  LogInv'
<1>1. /\ end' = end /\ commits' = commits /\ content' = content /\ gen'.id = gen.id
      /\ Known' \subseteq Known /\ cycle'.at # "start"
      /\ base' \in {base, ThisBase}
  BY DEF ShipEffect
<1>2. end \in Nat /\ file \in Nat /\ gen.id \in Nat
  BY DEF LogInv, TypeOK, Generation
<1>3. Boundaries' = Boundaries /\ file' <= end
  BY <1>1, <1>2 DEF ShipEffect, LogInv, Boundaries
<1>4. base'.gen <= gen.id /\ base'.content = content[base'.gen]
  BY <1>1, <1>2, ThisBaseType DEF LogInv
<1>5. gen'.base = "published" => base'.gen = gen.id
  BY <1>1, ThisBaseType DEF ShipEffect, LogInv
<1>6. cycle'.at = "clean" => gen'.base = "published"
  BY DEF ShipEffect
<1> QED BY <1>1, <1>3, <1>4, <1>5, <1>6 DEF LogInv

LEMMA LogInvStep == LogInv /\ [Next]_vars => LogInv'
<1> SUFFICES ASSUME LogInv, [Next]_vars PROVE LogInv'
  OBVIOUS
<1>1. CASE UNCHANGED vars
  BY <1>1 DEF LogInv, TypeOK, Known, Boundaries, vars, sqlite, reading, bucket
<1> QED BY <1>1, StepCases, LogInvCommit, LogInvCapture, LogInvStart, LogInvShip

LEMMA LogInvAlways == Spec => []LogInv
BY LogInvInit, LogInvStep, PTL DEF Spec

\* Where a restore can end, and that it ends at the last of them.
Ends == {base.content} \cup {x.to : x \in {y \in Contiguous : y.to \in commits}}

RestoresTheLast ==
    /\ Restored \in Ends /\ \A k \in Ends : k <= Restored
    /\ Ends \subseteq Boundaries /\ Ends \subseteq Nat /\ Restored \in Nat

LEMMA RestoredFacts == LogInv => RestoresTheLast
<1> SUFFICES ASSUME LogInv PROVE RestoresTheLast
  OBVIOUS
<1>1. base.gen \in 0 .. MaxGenerations
  BY LimitsAssumption DEF LogInv, TypeOK, Generation
<1>2. Ends \subseteq Boundaries
  BY <1>1 DEF Ends, LogInv, Boundaries
<1>3. Boundaries \subseteq Nat /\ \A k \in Boundaries : k <= end
  BY DEF LogInv, Boundaries, TypeOK
<1>4. end \in Nat /\ Ends # {} /\ Ends \in SUBSET Nat /\ \A k \in Ends : k <= end
  BY <1>2, <1>3 DEF LogInv, TypeOK, Ends
<1>5. \E m \in Ends : \A k \in Ends : k <= m
  <2> HIDE DEF Ends
  <2> QED BY <1>4, BoundedMax
<1>6. Restored = CHOOSE m \in Ends : \A k \in Ends : k <= m
  BY DEF Restored, Ends
<1>7. Restored \in Ends /\ \A k \in Ends : k <= Restored
  <2> HIDE DEF Ends
  <2> QED BY <1>5, <1>6
<1> QED BY <1>2, <1>4, <1>7 DEF RestoresTheLast

\* A restore gives more, or the same, when everything it could end at before
\* is reached by something it can end at now.
LEMMA RestoredGrows ==
    ASSUME LogInv, LogInv', \A k \in Ends : \E m \in Ends' : k <= m
    PROVE  Restored <= Restored'
<1>1. Restored \in Ends /\ Restored \in Nat
  BY RestoredFacts DEF RestoresTheLast
<1>2. /\ Restored' \in Ends' /\ \A k \in Ends' : k <= Restored'
      /\ Ends' \subseteq Nat /\ Restored' \in Nat
  <2>1. RestoresTheLast'
    BY RestoredFacts, PTL
  <2> QED BY <2>1 DEF RestoresTheLast
<1>3. PICK m \in Ends' : Restored <= m
  BY <1>1
<1>4. m <= Restored' /\ m \in Nat
  BY <1>2, <1>3
<1> QED BY <1>1, <1>2, <1>3, <1>4

LEMMA EndsCommit ==
    ASSUME LogInv, NEW n \in 1 .. MaxFrames, Commit(n)
    PROVE  Ends' = Ends /\ Restored' = Restored
<1>1. commits' = commits \cup {end + n} /\ stored' = stored /\ base' = base
  BY DEF Commit, bucket
<1>2. Contiguous' = Contiguous
  BY <1>1 DEF Contiguous, OfGeneration
<1>3. \A y \in Contiguous : y.to \in commits' <=> y.to \in commits
  <2> SUFFICES ASSUME NEW y \in Contiguous PROVE y.to # end + n
    BY <1>1
  <2>1. y \in Known /\ y \in Segment
    BY DEF Contiguous, OfGeneration, Known, LogInv, TypeOK
  <2>2. y.to <= end /\ y.to \in Nat /\ end \in Nat
    BY <2>1 DEF LogInv, TypeOK, Segment
  <2> QED BY <2>2
<1>4. {y \in Contiguous' : y.to \in commits'} = {y \in Contiguous : y.to \in commits}
  BY <1>2, <1>3
<1> QED BY <1>1, <1>4 DEF Ends, Restored

LEMMA EndsShip ==
    ASSUME LogInv, TypeOK', ShipEffect,
           \A x \in stored : x.gen = base.gen => x \in stored'
    PROVE  \A k \in Ends : \E m \in Ends' : k <= m
<1>1. /\ commits' = commits /\ base' \in {base, ThisBase} /\ content' = content
  BY DEF ShipEffect
<1>2. Ends \subseteq Nat
  BY RestoredFacts DEF RestoresTheLast
<1>3. CASE base' = base
  <2>1. Contiguous \subseteq Contiguous'
    BY <1>3 DEF Contiguous, OfGeneration
  <2>2. Ends \subseteq Ends'
    BY <1>1, <1>3, <2>1 DEF Ends
  <2> QED BY <1>2, <2>2
<1>4. CASE base' = ThisBase /\ base' # base
  <2>1. base.gen # gen.id
    BY <1>4, ThisBaseType DEF ThisBase, LogInv, TypeOK
  <2>2. base.gen \in 0 .. gen.id /\ gen.id \in Nat /\ base.gen < gen.id
    <3>1. base.gen \in Nat /\ gen.id \in Nat /\ base.gen <= gen.id
      BY DEF LogInv, TypeOK, Generation
    <3> QED BY <2>1, <3>1
  <2>3. \A k \in Ends : k <= content[gen.id]
    <3>1. base.content <= content[gen.id]
      BY <2>2 DEF LogInv
    <3>2. \A x \in Contiguous : x.to <= content[gen.id]
      BY <2>2 DEF Contiguous, OfGeneration, Known, LogInv
    <3> QED BY <3>1, <3>2 DEF Ends
  <2>4. content[gen.id] \in Ends'
    BY <1>4, ThisBaseType DEF Ends
  <2> QED BY <2>3, <2>4
<1> QED BY <1>1, <1>3, <1>4

\* No step of ship takes a segment of the base's generation away.
LEMMA BaseSegmentsKept ==
    ASSUME LogInv, [Next]_vars
    PROVE  \A x \in stored : x.gen = base.gen => x \in stored'
<1>1. CASE DeleteStale
  BY <1>1 DEF DeleteStale, Stale, LogInv
<1>2. CASE ~DeleteStale
  <2>1. stored \subseteq stored'
    BY <1>2 DEF Next, ShipStep, vars, Commit, BeginShip, Capture, CaptureFails,
       StartGeneration, StartGenerationFails, PutSegment, PutSegmentFails,
       PutSegmentConflict, NothingToPublish, PublishBase, PublishFails, EndClean, bucket
  <2> QED BY <2>1
<1> QED BY <1>1, <1>2

LEMMA StepRestores ==
    ASSUME LogInv, LogInv', [Next]_vars
    PROVE  /\ Restored <= Restored'
           /\ \/ Restored' = Restored /\ \E n \in 1 .. MaxFrames : Commit(n)
              \/ commits' = commits
<1>1. ASSUME commits' = commits, stored' = stored, base' = base
      PROVE  Restored <= Restored' /\ commits' = commits
  <2>1. Restored' = Restored
    BY <1>1 DEF Restored, Contiguous, OfGeneration
  <2>2. Restored \in Nat
    BY RestoredFacts DEF RestoresTheLast
  <2> QED BY <1>1, <2>1, <2>2
<1>2. CASE UNCHANGED vars
  BY <1>1, <1>2 DEF vars, sqlite, bucket
<1>3. CASE \E n \in 1 .. MaxFrames : Commit(n)
  <2>1. Restored \in Nat
    BY RestoredFacts DEF RestoresTheLast
  <2> QED BY <1>3, <2>1, EndsCommit
<1>4. CASE Capture
  <2>1. CaptureEffect
    BY <1>4, CaptureFacts DEF LogInv
  <2> QED BY <1>1, <2>1 DEF CaptureEffect
<1>5. CASE StartGeneration
  BY <1>1, <1>5 DEF StartGeneration, sqlite, bucket
<1>6. CASE TypeOK' /\ ShipEffect
  <2>1. \A k \in Ends : \E m \in Ends' : k <= m
    BY <1>6, EndsShip, BaseSegmentsKept
  <2> QED BY <1>6, <2>1, RestoredGrows DEF ShipEffect
<1> QED BY <1>2, <1>3, <1>4, <1>5, <1>6, StepCases

\* Shipping implements the log a reader relies on, whatever fails: what a
\* restore gives is a whole number of transactions and never goes back, at no
\* point of an upload, a rotation, a cleanup, a lost response or a WAL that
\* could not be truncated (publish_base, delete_generations_except and
\* apply_wal of walship.rs).
THEOREM ShippingImplementsLog == Spec => ImplementsLog
<1>1. Init => Log!Init
  <2> SUFFICES ASSUME Init PROVE commits = {} /\ Restored = 0
    BY DEF Log!Init
  <2>1. Ends = {0}
    BY DEF Init, Ends, Contiguous, OfGeneration
  <2>2. Restored \in Ends
    BY LogInvInit, RestoredFacts DEF RestoresTheLast
  <2> QED BY <2>1, <2>2 DEF Init
<1>2. LogInv /\ LogInv' /\ [Next]_vars => [Log!Next]_(Log!vars)
  <2> SUFFICES ASSUME LogInv, LogInv', [Next]_vars PROVE [Log!Next]_(Log!vars)
    OBVIOUS
  <2>1. Restored \in Nat /\ Restored' \in Nat /\ Restored' \in Boundaries'
    <3>1. RestoresTheLast /\ RestoresTheLast'
      BY RestoredFacts, PTL
    <3> QED BY <3>1 DEF RestoresTheLast
  <2>2. Restored <= Restored'
    BY StepRestores
  <2>3. CASE Restored' = Restored /\ \E n \in 1 .. MaxFrames : Commit(n)
    <3>1. PICK n \in 1 .. MaxFrames : Commit(n)
      BY <2>3
    <3>2. commits' = commits \cup {end + n}
      BY <3>1 DEF Commit
    <3>3. \A k \in commits : k < end + n
      BY DEF LogInv, TypeOK
    <3>4. Log!Commit
      BY <2>3, <3>2, <3>3 DEF Log!Commit
    <3> QED BY <3>4 DEF Log!Next
  <2>4. CASE commits' = commits
    <3>1. CASE Restored' = Restored
      BY <2>4, <3>1 DEF Log!vars
    <3>2. CASE Restored' # Restored
      <4>1. Restored' > Restored /\ Restored' \in commits
        BY <2>1, <2>2, <2>4, <3>2 DEF Boundaries
      <4> QED BY <2>4, <4>1 DEF Log!Next, Log!Ship
    <3> QED BY <3>1, <3>2
  <2> QED BY <2>3, <2>4, StepRestores
<1> QED BY <1>1, <1>2, LogInvAlways, PTL DEF Spec, ImplementsLog, Log!Spec

-----------------------------------------------------------------------------
(* The cursor follows the generation.                                      *)

\* What the next capture will read from continues what the generation has:
\* the WAL from its start while there is no cursor, the cursor while the WAL
\* is the one it points into, and the start of a WAL that was restarted after
\* it was read to its end.  restart_ok is what tells the last case from a WAL
\* restarted under an unread tail: while it holds, not all frames are in the
\* file before the cursor has passed them.
Follows ==
    /\ cursor = 0 => ~restarted /\ first = file + 1 /\ first = gen.read + 1
    /\ cursor # 0 /\ ~restarted => cursor = gen.read + 1 /\ (restartOk => file < cursor)
    /\ cursor # 0 /\ restarted /\ restartOk => first = gen.read + 1 /\ file < first

CursorInv ==
    /\ first <= end + 1
    /\ cursor # 0 => first <= end /\ cursor <= end + 1
    /\ Usable(gen) => Follows
    /\ cycle.at = "start" => cursor = 0 /\ ~restarted /\ first = file + 1

LEMMA CursorInvInit == Init => CursorInv
BY DEF Init, CursorInv, NoGeneration, Usable, Idle

\* CursorContinues, and what it is for.
LEMMA ContinuesFacts ==
    ASSUME LogInv, CursorInv
    PROVE  /\ CursorContinues
           /\ ReadFrom <= end + 1 /\ ReadTo \in Nat /\ ReadTo <= end
           /\ ReadFrom <= ReadTo + 1
           /\ ReadFrom > ReadTo => ReadFrom = end + 1 /\ Drained /\ ReadTo = end
<1>1. /\ end \in Nat /\ first \in Nat /\ cursor \in Nat
      /\ restarted \in BOOLEAN /\ restartOk \in BOOLEAN /\ TypeOK
  BY DEF LogInv, TypeOK
<1>2. ReadFrom <= end + 1
  BY <1>1 DEF CursorInv, ReadFrom
<1>3. CursorContinues
  BY <1>1 DEF CursorContinues, CursorInv, Follows, ReadFrom, Reset, CursorGone
<1> QED BY <1>1, <1>2, <1>3, ReadingTypes DEF Drained

LEMMA CursorInvCommit ==
    ASSUME LogInv, CursorInv, NEW n \in 1 .. MaxFrames, Commit(n)
    PROVE  CursorInv'
<1>1. /\ end' = end + n /\ file' = file /\ gen' = gen /\ cursor' = cursor
      /\ restartOk' = restartOk /\ cycle' = cycle /\ n \in Nat /\ n > 0
  BY LimitsAssumption DEF Commit
<1>2. /\ end \in Nat /\ first \in Nat /\ cursor \in Nat /\ file \in Nat
      /\ restarted \in BOOLEAN /\ restartOk \in BOOLEAN /\ gen.read \in Nat
      /\ file <= end
  BY DEF LogInv, TypeOK, Generation
<1>3. CASE first' = first /\ restarted' = restarted
  BY <1>1, <1>2, <1>3 DEF CursorInv, Follows, Usable
<1>4. CASE file = end /\ first <= end /\ first' = end + 1 /\ restarted' = TRUE
  <2>1. first' <= end' + 1 /\ (cursor' # 0 => first' <= end' /\ cursor' <= end' + 1)
    BY <1>1, <1>2, <1>4 DEF CursorInv
  <2>2. cycle'.at # "start"
    BY <1>1, <1>2, <1>4 DEF CursorInv
  <2>3. ASSUME Usable(gen) PROVE Follows'
    <3>1. cursor # 0
      BY <1>2, <1>4, <2>3 DEF CursorInv, Follows
    <3>2. restartOk => cursor = gen.read + 1 /\ file < cursor
      BY <1>2, <1>4, <2>3, <3>1 DEF CursorInv, Follows
    <3>3. restartOk => gen.read = end
      BY <1>2, <1>4, <2>3, <3>1, <3>2 DEF CursorInv
    <3> QED BY <1>1, <1>2, <1>4, <3>1, <3>3 DEF Follows
  <2>4. Usable(gen') => Follows'
    BY <1>1, <2>3
  <2> QED BY <2>1, <2>2, <2>4 DEF CursorInv
<1> QED BY <1>3, <1>4 DEF Commit

LEMMA CursorInvStart ==
    ASSUME LogInv, CursorInv, StartGeneration
    PROVE  CursorInv'
<1>1. /\ cycle.at = "start" /\ end' = end /\ file' = file /\ first' = first
      /\ cursor' = cursor /\ restarted' = restarted /\ restartOk' = restartOk
      /\ gen' = [NoGeneration EXCEPT !.id = gen.id + 1, !.base = "local", !.read = file]
      /\ cycle' = [cycle EXCEPT !.at = "upload"]
  BY DEF StartGeneration, GoTo, sqlite, reading
<1>2. gen'.read = file /\ cycle'.at = "upload"
  BY <1>1 DEF NoGeneration, LogInv, TypeOK
<1>3. Follows'
  BY <1>1, <1>2 DEF CursorInv, Follows
<1> QED BY <1>1, <1>2, <1>3 DEF CursorInv

LEMMA CursorInvShip ==
    ASSUME ~TruncateMayFail, LogInv, CursorInv, ShipEffect
    PROVE  CursorInv'
<1>1. /\ end' = end /\ first' = first /\ cursor' = cursor /\ restarted' = restarted
      /\ restartOk' = restartOk /\ file' = file /\ gen'.read = gen.read
      /\ gen'.id = gen.id /\ (gen.broken => gen'.broken) /\ cycle'.at # "start"
  BY DEF ShipEffect
<1>2. Usable(gen') => Usable(gen)
  BY <1>1 DEF Usable
<1> QED BY <1>1, <1>2 DEF CursorInv, Follows

\* A truncation empties the WAL into the file: it is right for a generation
\* that has all frames.
LEMMA AfterTruncation ==
    ASSUME LogInv, Truncated, Usable(gen') => gen'.read = end
    PROVE  CursorInv'
<1>1. /\ file' = end /\ end' = end /\ first' = end + 1 /\ cursor' = 0 /\ ~restarted'
      /\ end \in Nat
  BY DEF Truncated, LogInv, TypeOK
<1> QED BY <1>1 DEF CursorInv, Follows

\* A capture that drained the WAL, or that could not give the generation what
\* it read, leaves it with all frames, or abandons it.
Caught == cycle'.whole => cycle'.at = "start" \/ gen'.broken \/ (gen'.id # 0 /\ gen'.read = end)

LEMMA CursorInvCapture ==
    ASSUME LogInv, CursorInv, Capture
    PROVE  CursorInv' /\ Caught
<1>0. /\ end \in Nat /\ first \in Nat /\ cursor \in Nat /\ file \in Nat
      /\ restarted \in BOOLEAN /\ restartOk \in BOOLEAN
      /\ gen \in Generation /\ gen.read \in Nat /\ TypeOK /\ file <= end
      /\ first <= end + 1
  BY DEF LogInv, TypeOK, Generation, CursorInv
<1>1. /\ CursorContinues /\ ReadFrom \in Nat
      /\ ReadFrom <= end + 1 /\ ReadTo \in Nat /\ ReadTo <= end
      /\ ReadFrom > ReadTo => ReadFrom = end + 1 /\ Drained /\ ReadTo = end
      /\ Drained \in BOOLEAN /\ Progressed \in BOOLEAN
  BY <1>0, ContinuesFacts, ReadingTypes DEF Drained, Progressed
<1>2. CASE CaptureNothing
  <2>1. ~Usable(gen) /\ gen' = gen
    BY <1>2 DEF CaptureNothing
  <2>2. CASE Truncated /\ Proceed(TRUE, TRUE, FALSE)
    <3>1. cycle'.at = "start"
      BY <1>0, <2>2, ProceedFacts
    <3> QED BY <2>1, <2>2, <3>1, AfterTruncation DEF Caught
  <2>3. CASE Busy /\ UNCHANGED reading /\ Proceed(FALSE, FALSE, TRUE)
    <3>1. cycle'.at = "upload" /\ ~cycle'.whole
      BY <1>0, <2>3, ProceedFacts
    <3>2. end' = end /\ first' = first /\ cursor' = cursor
      BY <2>3 DEF Busy, reading
    <3> QED BY <2>1, <3>1, <3>2 DEF CursorInv, Caught
  <2> QED BY <1>2, <2>2, <2>3 DEF CaptureNothing
<1>3. CASE CaptureReset
  <2>1. ~Usable(gen')
    BY <1>0, <1>3, MarkBrokenFacts DEF CaptureReset
  <2>2. CASE Truncated /\ Proceed(TRUE, TRUE, FALSE)
    <3>1. cycle'.at = "start"
      BY <1>0, <2>2, ProceedFacts
    <3> QED BY <2>1, <2>2, <3>1, AfterTruncation DEF Caught
  <2>3. CASE (Busy \/ UNCHANGED sqlite) /\ cursor' = 0 /\ Proceed(FALSE, FALSE, FALSE)
    <3>1. cycle'.at = "upload" /\ ~cycle'.whole
      BY <1>0, <2>3, ProceedFacts
    <3>2. end' = end /\ first' = first /\ cursor' = 0
      BY <2>3 DEF Busy, sqlite
    <3> QED BY <1>0, <2>1, <3>1, <3>2 DEF CursorInv, Caught
  <2> QED BY <1>3, <2>2, <2>3 DEF CaptureReset
<1>4. CASE CaptureFrames
  <2> DEFINE rotate == RotationWanted(cycle.final)
  <2>1. /\ rotate \in BOOLEAN /\ Usable(gen) /\ ~Reset /\ gen.id # 0 /\ ~gen.broken
        /\ ReadFrom = gen.read + 1
    BY <1>1, <1>4 DEF CaptureFrames, RotationWanted, CursorContinues, Usable
  <2>2. CASE Truncated /\ Queue(Truncating, ReadFrom, ReadTo) /\ Proceed(rotate, TRUE, FALSE)
    <3>1. Truncating \in {gen, MarkBroken(gen)}
      BY DEF Truncating
    <3>2. Truncating = gen => Drained
      BY <1>0, <2>1, MarkBrokenFacts DEF Truncating
    <3>3. \/ Kept /\ Truncating = gen /\ ReadFrom > ReadTo
          \/ Abandoned
          \/ Extended /\ Truncating = gen
      <4> HIDE DEF rotate
      <4> QED BY <1>0, <2>1, <2>2, <3>1, QueueFacts
    <3>4. gen'.broken \/ (gen'.id # 0 /\ gen'.read = end)
      <4>1. CASE Kept /\ ReadFrom > ReadTo
        BY <1>0, <1>1, <2>1, <4>1 DEF Kept
      <4>2. CASE Abandoned
        BY <4>2 DEF Abandoned
      <4>3. CASE Extended /\ Truncating = gen
        BY <1>1, <2>1, <3>2, <4>3 DEF Extended, Drained
      <4> QED BY <3>3, <4>1, <4>2, <4>3
    <3>5. Usable(gen') => gen'.read = end
      BY <3>4 DEF Usable
    <3> QED BY <2>2, <3>4, <3>5, AfterTruncation DEF Caught
  <2>3. ASSUME NEW attempted \in BOOLEAN, Busy \/ UNCHANGED sqlite,
               Advance, restartOk' = RestartAllowed(attempted),
               Queue(gen, ReadFrom, ReadTo), Proceed(FALSE, Drained, ~Progressed)
        PROVE  CursorInv' /\ Caught
    <3>1. \/ Kept /\ ReadFrom > ReadTo
          \/ Abandoned
          \/ Extended
      BY <1>0, <2>1, <2>3, QueueFacts
    <3>2. cycle'.at = "upload" /\ cycle'.whole = Drained
      BY <1>0, <1>1, <2>3, ProceedFacts
    <3>3. /\ end' = end /\ first' = first /\ file' \in file .. end
          /\ cursor' = (IF first > end THEN 0 ELSE ReadTo + 1) /\ restarted' = FALSE
      BY <1>0, <2>3 DEF Busy, sqlite, Advance
    <3>4. gen'.broken \/ (gen'.id # 0 /\ gen'.read = ReadTo)
      <4>1. CASE Kept /\ ReadFrom > ReadTo
        BY <1>0, <1>1, <2>1, <4>1 DEF Kept
      <4>2. CASE Abandoned
        BY <4>2 DEF Abandoned
      <4>3. CASE Extended
        BY <2>1, <4>3 DEF Extended
      <4> QED BY <3>1, <4>1, <4>2, <4>3
    <3>5. Caught
      BY <3>2, <3>4 DEF Caught, Drained
    <3>6. restartOk' => ReadTo = end
      <4>1. restartOk' = RestartAllowed(attempted)
        BY <2>3
      <4>2. restartOk' => Drained \/ ~Progressed
        BY <4>1 DEF RestartAllowed
      <4> QED BY <1>1, <4>2 DEF Drained, Progressed
    <3>7. ASSUME first > end PROVE cursor = 0 /\ first = end + 1 /\ file = end /\ ReadTo = end
      <4>1. cursor = 0 /\ first = end + 1
        BY <1>0, <3>7 DEF CursorInv
      <4>2. first = file + 1 /\ ReadFrom = first
        BY <2>1, <4>1 DEF CursorInv, Follows, ReadFrom
      <4> QED BY <1>0, <1>1, <4>1, <4>2
    <3>8. ASSUME Usable(gen') PROVE Follows'
      <4>1. gen'.read = ReadTo
        BY <3>4, <3>8 DEF Usable
      <4>2. CASE first > end
        <5>1. cursor' = 0 /\ file' = end /\ first' = end + 1 /\ ReadTo = end
          BY <1>0, <3>3, <3>7, <4>2
        <5>2. ~restarted'
          BY <3>3
        <5> QED BY <4>1, <5>1, <5>2 DEF Follows
      <4>3. CASE first <= end
        <5>1. cursor' = ReadTo + 1 /\ cursor' # 0 /\ file' <= end
          BY <1>0, <1>1, <3>3, <4>3
        <5>2. ~restarted'
          BY <3>3
        <5>3. restartOk' => file' < cursor'
          BY <1>0, <3>3, <3>6, <5>1
        <5> QED BY <4>1, <5>1, <5>2, <5>3 DEF Follows
      <4> QED BY <1>0, <4>2, <4>3
    <3> QED BY <1>0, <1>1, <3>2, <3>3, <3>5, <3>8 DEF CursorInv
  <2>4. \/ Truncated /\ Queue(Truncating, ReadFrom, ReadTo) /\ Proceed(rotate, TRUE, FALSE)
        \/ \E attempted \in BOOLEAN :
              /\ Busy \/ UNCHANGED sqlite
              /\ Advance /\ restartOk' = RestartAllowed(attempted)
              /\ Queue(gen, ReadFrom, ReadTo)
              /\ Proceed(FALSE, Drained, ~Progressed)
    BY <1>4 DEF CaptureFrames
  <2> QED BY <2>2, <2>3, <2>4
<1> QED BY <1>2, <1>3, <1>4 DEF Capture

LEMMA CursorInvStep ==
    ASSUME ~TruncateMayFail, LogInv, CursorInv, [Next]_vars
    PROVE  CursorInv'
<1>1. CASE UNCHANGED vars
  BY <1>1 DEF CursorInv, Follows, Usable, vars, sqlite, reading
<1> QED BY <1>1, StepCases, CursorInvCommit, CursorInvCapture, CursorInvStart, CursorInvShip

-----------------------------------------------------------------------------
(* The segments of a generation continue one another.                      *)

\* NoHiddenGap, and where the next segment of the generation will continue.
Chained(x) ==
    /\ x.from <= x.to
    /\ x.seq = 0 => x.from = content[x.gen] + 1
    /\ \A y \in Known : x.gen = y.gen /\ y.seq = x.seq + 1 => y.from = x.to + 1

ChainInv ==
    /\ \A x \in Known : Chained(x)
    /\ Usable(gen) =>
          /\ gen.nextSeq = 0 => gen.read = content[gen.id]
          /\ \A x \in Known : x.gen = gen.id =>
                x.seq < gen.nextSeq /\ (x.seq + 1 = gen.nextSeq => x.to = gen.read)

LEMMA ChainInvInit == Init => ChainInv
BY DEF Init, ChainInv, NoGeneration, Usable, Known

LEMMA ChainInvCapture ==
    ASSUME LogInv, CursorInv, ChainInv, Capture
    PROVE  ChainInv'
<1>0. CaptureEffect /\ TypeOK
  BY CaptureFacts DEF LogInv
<1>1. stored' = stored /\ content' = content
  BY <1>0 DEF CaptureEffect
<1>2. CASE Kept
  BY <1>1, <1>2 DEF Kept, ChainInv, Chained, Known, Usable
<1>3. CASE Abandoned
  <2>1. Known' \subseteq Known /\ ~Usable(gen')
    BY <1>1, <1>3 DEF Abandoned, Known, Usable
  <2> QED BY <1>1, <2>1 DEF ChainInv, Chained
<1>4. CASE Extended
  <2> DEFINE s == NextSegment
  <2>1. /\ Known' = Known \cup {s} /\ gen'.id = gen.id /\ gen'.nextSeq = gen.nextSeq + 1
        /\ gen'.read = ReadTo /\ Usable(gen) /\ ReadFrom <= ReadTo
        /\ ReadFrom = gen.read + 1
    BY <1>1, <1>4, ContinuesFacts DEF Extended, Known, CursorContinues
  <2>2. s.gen = gen.id /\ s.seq = gen.nextSeq /\ s.from = ReadFrom /\ s.to = ReadTo
    BY DEF NextSegment
  <2>3. /\ gen.nextSeq \in Nat /\ gen.read \in Nat
        /\ \A x \in Known : x.seq \in Nat /\ x.to \in Nat
    BY <1>0 DEF TypeOK, Generation, Known, Segment
  <2> HIDE DEF s
  <2>4. \A x \in Known : x.gen = gen.id =>
            x.seq < gen.nextSeq /\ (x.seq + 1 = gen.nextSeq => x.to = gen.read)
    BY <2>1 DEF ChainInv
  <2>5. ASSUME NEW x \in Known' PROVE Chained(x)'
    <3>1. CASE x = s
      <4>1. x.seq = 0 => x.from = content[x.gen] + 1
        BY <2>1, <2>2, <3>1 DEF ChainInv
      <4>2. \A y \in Known' : ~(x.gen = y.gen /\ y.seq = x.seq + 1)
        BY <2>1, <2>2, <2>3, <2>4, <3>1
      <4> QED BY <1>1, <2>1, <2>2, <3>1, <4>1, <4>2 DEF Chained
    <3>2. CASE x \in Known
      <4>1. x.gen = s.gen /\ s.seq = x.seq + 1 => s.from = x.to + 1
        BY <2>1, <2>2, <2>4, <3>2
      <4>2. Chained(x)
        BY <3>2 DEF ChainInv
      <4> QED BY <1>1, <2>1, <4>1, <4>2 DEF Chained
    <3> QED BY <2>1, <3>1, <3>2
  <2>6. gen'.nextSeq # 0
    BY <2>1, <2>3
  <2>7. \A x \in Known' : x.gen = gen'.id =>
            x.seq < gen'.nextSeq /\ (x.seq + 1 = gen'.nextSeq => x.to = gen'.read)
    BY <2>1, <2>2, <2>3, <2>4
  <2> QED BY <2>5, <2>6, <2>7 DEF ChainInv
<1> QED BY <1>0, <1>2, <1>3, <1>4 DEF CaptureEffect

LEMMA ChainInvStart ==
    ASSUME LogInv, ChainInv, StartGeneration
    PROVE  ChainInv'
<1>1. /\ gen.id < MaxGenerations /\ pending' = pending /\ stored' = stored
      /\ gen' = [NoGeneration EXCEPT !.id = gen.id + 1, !.base = "local", !.read = file]
      /\ content' = [content EXCEPT ![gen.id + 1] = file]
  BY DEF StartGeneration, bucket
<1>2. /\ gen.id \in Nat /\ \A x \in Known : x.gen \in Nat
  BY DEF LogInv, TypeOK, Generation, Known, Segment
<1>3. gen'.id = gen.id + 1 /\ gen'.read = file /\ gen'.nextSeq = 0
  BY <1>1 DEF NoGeneration
<1>4. Known' = Known /\ \A x \in Known : x.gen <= gen.id /\ x.gen # gen.id + 1
  BY <1>1, <1>2 DEF LogInv, Known
<1>5. content'[gen.id + 1] = file /\ \A x \in Known : content'[x.gen] = content[x.gen]
  <2>1. content \in [0 .. MaxGenerations -> Nat] /\ gen.id + 1 \in 0 .. MaxGenerations
    <3>1. content \in [0 .. MaxGenerations -> Nat]
      BY DEF LogInv, TypeOK
    <3> QED BY <1>1, <1>2, <3>1, LimitsAssumption
  <2>2. \A x \in Known : x.gen \in 0 .. MaxGenerations
    BY <1>1, <1>2, <1>4, LimitsAssumption
  <2> QED BY <1>1, <1>4, <2>1, <2>2
<1>6. \A x \in Known' : Chained(x)'
  BY <1>4, <1>5 DEF ChainInv, Chained
<1> QED BY <1>3, <1>4, <1>5, <1>6 DEF ChainInv

LEMMA ChainInvStep ==
    ASSUME LogInv, CursorInv, ChainInv, [Next]_vars
    PROVE  ChainInv'
<1>1. CASE UNCHANGED vars
  BY <1>1 DEF ChainInv, Chained, Known, Usable, vars, sqlite, bucket
<1>2. CASE \E n \in 1 .. MaxFrames : Commit(n)
  BY <1>2 DEF Commit, ChainInv, Chained, Known, Usable, bucket
<1>3. CASE TypeOK' /\ ShipEffect
  <2>1. /\ content' = content /\ Known' \subseteq Known /\ gen'.id = gen.id
        /\ gen'.read = gen.read /\ gen'.nextSeq = gen.nextSeq
        /\ Usable(gen') => Usable(gen)
    BY <1>3 DEF ShipEffect, Usable
  <2> QED BY <2>1 DEF ChainInv, Chained
<1> QED BY <1>1, <1>2, <1>3, StepCases, ChainInvCapture, ChainInvStart

\* Replaying a prefix of a generation's segments never skips a frame, as long
\* as the file system never refuses to truncate a WAL it has backfilled:
\* capture puts its cursor where the WAL goes on, whatever was checkpointed,
\* restarted or truncated since it read, or it notices that it cannot (capture
\* and queue_segments of walship.rs).
THEOREM SegmentsHideNoGap ==
    ASSUME ~TruncateMayFail
    PROVE  Spec => []NoHiddenGap
<1>1. LogInv /\ CursorInv /\ ChainInv /\ [Next]_vars => CursorInv' /\ ChainInv'
  BY CursorInvStep, ChainInvStep
<1>2. LogInv /\ ChainInv => NoHiddenGap
  BY DEF LogInv, ChainInv, Chained, NoHiddenGap, Known
<1> QED BY <1>1, <1>2, LogInvAlways, CursorInvInit, ChainInvInit, PTL DEF Spec

-----------------------------------------------------------------------------
(* A ship call that says it shipped everything.                            *)

\* The segments counted so far are all still known, so that an empty queue
\* means they are all in the bucket; and a call that found nothing left to
\* read has all that was committed before it in the generation it writes.
AllKnown == \A n \in 0 .. gen.nextSeq - 1 : \E y \in Known : y.gen = gen.id /\ y.seq = n

ReadAll ==
    gen.broken \/ (gen.id # 0 /\ gen.read \in Boundaries /\ shipped.upTo <= gen.read)

WholeInv ==
    /\ shipped.upTo <= end
    /\ Usable(gen) => gen.base # "none" /\ AllKnown
    /\ cycle.at = "clean" => pending = {}
    /\ cycle.at = "start" => shipped.upTo <= file
    /\ cycle.whole /\ cycle.at \in {"upload", "clean"} => ReadAll
    /\ shipped.result = "whole" => cycle.at = "idle" /\ (gen.broken \/ shipped.upTo <= Restored)

LEMMA WholeInvInit == Init => WholeInv
BY DEF Init, WholeInv, NoGeneration, Usable, Idle

\* With an empty queue and a published base, a restore gives all that the
\* generation has.
LEMMA RestoresWhatIsRead ==
    ASSUME LogInv, ChainInv, WholeInv, Usable(gen), ReadAll,
           pending = {}, gen.base = "published"
    PROVE  shipped.upTo <= Restored
<1>0. /\ gen.id # 0 /\ gen.read \in Boundaries /\ shipped.upTo <= gen.read
      /\ base.gen = gen.id /\ base.content = content[gen.id]
      /\ gen.nextSeq \in Nat /\ gen.read \in Nat /\ shipped.upTo \in Nat
      /\ Known = stored
  BY DEF LogInv, TypeOK, Generation, ReadAll, Usable, Known
<1>1. Restored \in Nat /\ \A k \in Ends : k <= Restored
  BY RestoredFacts DEF RestoresTheLast
<1>2. CASE gen.nextSeq = 0
  <2>1. gen.read = base.content
    BY <1>0, <1>2 DEF ChainInv
  <2>2. gen.read \in Ends
    BY <2>1 DEF Ends
  <2> QED BY <1>0, <1>1, <2>2
<1>3. CASE gen.nextSeq # 0
  <2>1. AllKnown /\ gen.nextSeq - 1 \in 0 .. gen.nextSeq - 1
    BY <1>0, <1>3 DEF WholeInv
  <2>2. PICK y \in stored : y.gen = gen.id /\ y.seq = gen.nextSeq - 1
    BY <1>0, <2>1 DEF AllKnown
  <2>3. y.to = gen.read
    BY <1>0, <2>2 DEF ChainInv, Known
  <2>4. \A n \in 0 .. y.seq : \E z \in OfGeneration(stored, base.gen) : z.seq = n
    BY <1>0, <2>1, <2>2 DEF AllKnown, OfGeneration
  <2>5. y \in Contiguous
    BY <1>0, <2>2, <2>4 DEF Contiguous, OfGeneration
  <2>6. CASE gen.read \in commits
    <3>1. gen.read \in Ends
      BY <2>3, <2>5, <2>6 DEF Ends
    <3> QED BY <1>0, <1>1, <3>1
  <2>7. CASE gen.read = 0
    BY <1>0, <1>1, <2>7
  <2> QED BY <1>0, <2>6, <2>7 DEF Boundaries
<1> QED BY <1>2, <1>3

LEMMA WholeInvCommit ==
    ASSUME LogInv, LogInv', WholeInv, NEW n \in 1 .. MaxFrames, Commit(n)
    PROVE  WholeInv'
<1>1. /\ end' = end + n /\ commits' = commits \cup {end + n} /\ file' = file /\ gen' = gen
      /\ pending' = pending /\ stored' = stored /\ cycle' = cycle /\ shipped' = shipped
  BY DEF Commit, bucket
<1>2. end \in Nat /\ shipped.upTo \in Nat /\ n \in Nat
  BY LimitsAssumption DEF LogInv, TypeOK
<1>3. Restored' = Restored
  BY EndsCommit
<1>4. shipped'.upTo <= end'
  BY <1>1, <1>2 DEF WholeInv
<1>5. Known' = Known /\ Boundaries \subseteq Boundaries'
  BY <1>1 DEF Known, Boundaries
<1>6. (AllKnown => AllKnown') /\ (ReadAll => ReadAll')
  BY <1>1, <1>5 DEF AllKnown, ReadAll
<1> QED BY <1>1, <1>3, <1>4, <1>6 DEF WholeInv, Usable

LEMMA WholeInvCapture ==
    ASSUME LogInv, CursorInv, WholeInv, Capture
    PROVE  WholeInv'
<1>0. CaptureEffect /\ TypeOK /\ Caught
  BY CaptureFacts, CursorInvCapture DEF LogInv
<1>1. /\ stored' = stored /\ shipped' = shipped /\ end' = end /\ commits' = commits
      /\ cycle'.at \in {"start", "upload"} /\ (cycle'.at = "start" => file' = end)
      /\ cycle.at = "capture"
  BY <1>0 DEF CaptureEffect
<1>2. cycle'.whole /\ cycle'.at = "upload" => ReadAll'
  BY <1>0, <1>1 DEF Caught, ReadAll, WholeInv, LogInv, Boundaries
<1>3. shipped'.result # "whole"
  BY <1>1 DEF WholeInv
<1>4. Usable(gen') => gen'.base # "none" /\ AllKnown'
  <2>1. CASE Kept
    BY <1>1, <2>1 DEF Kept, WholeInv, AllKnown, Known, Usable
  <2>2. CASE Abandoned
    BY <2>2 DEF Abandoned, Usable
  <2>3. CASE Extended
    <3>1. /\ gen'.id = gen.id /\ gen'.base = gen.base /\ gen'.nextSeq = gen.nextSeq + 1
          /\ Usable(gen) /\ Known' = Known \cup {NextSegment}
      BY <1>1, <2>3 DEF Extended, Known
    <3>2. NextSegment.gen = gen.id /\ NextSegment.seq = gen.nextSeq /\ gen.nextSeq \in Nat
      BY <1>0 DEF NextSegment, TypeOK, Generation
    <3>3. ASSUME NEW n \in 0 .. gen'.nextSeq - 1
          PROVE  \E y \in Known' : y.gen = gen.id /\ y.seq = n
      <4>1. CASE n = gen.nextSeq
        BY <3>1, <3>2, <4>1
      <4>2. CASE n \in 0 .. gen.nextSeq - 1
        BY <3>1, <4>2 DEF WholeInv, AllKnown
      <4> QED BY <3>1, <3>2, <4>1, <4>2
    <3> QED BY <3>1, <3>3 DEF WholeInv, AllKnown
  <2> QED BY <1>0, <2>1, <2>2, <2>3 DEF CaptureEffect
<1>5. /\ cycle'.at # "clean" /\ (cycle'.at = "start" => shipped'.upTo <= file')
      /\ shipped'.upTo <= end'
  BY <1>1 DEF WholeInv
<1> QED BY <1>1, <1>2, <1>3, <1>4, <1>5 DEF WholeInv

LEMMA WholeInvStart ==
    ASSUME LogInv, WholeInv, StartGeneration
    PROVE  WholeInv'
<1>1. /\ cycle.at = "start" /\ shipped' = shipped /\ end' = end /\ commits' = commits
      /\ gen' = [NoGeneration EXCEPT !.id = gen.id + 1, !.base = "local", !.read = file]
      /\ cycle' = [cycle EXCEPT !.at = "upload"]
  BY DEF StartGeneration, GoTo, sqlite
<1>2. /\ gen'.id = gen.id + 1 /\ gen'.read = file /\ gen'.nextSeq = 0 /\ gen'.base = "local"
      /\ cycle'.at = "upload" /\ gen.id \in Nat
  BY <1>1 DEF NoGeneration, LogInv, TypeOK, Generation
<1>3. ReadAll'
  BY <1>1, <1>2 DEF ReadAll, WholeInv, LogInv, Boundaries
<1>4. AllKnown'
  BY <1>2 DEF AllKnown
<1> QED BY <1>1, <1>2, <1>3, <1>4 DEF WholeInv

LEMMA WholeInvShip ==
    ASSUME LogInv, LogInv', ChainInv, WholeInv, TypeOK', ShipEffect
    PROVE  WholeInv'
<1>1. /\ end' = end /\ commits' = commits /\ gen'.id = gen.id /\ gen'.read = gen.read
      /\ gen'.nextSeq = gen.nextSeq /\ (gen.broken => gen'.broken)
      /\ cycle'.at # "start"
      /\ shipped'.upTo = shipped.upTo \/ (shipped'.upTo = end /\ cycle'.at = "capture")
  BY DEF ShipEffect
<1>2. shipped'.upTo <= end'
  BY <1>1 DEF WholeInv, LogInv, TypeOK
<1>3. Usable(gen') => gen'.base # "none" /\ AllKnown'
  <2> SUFFICES ASSUME Usable(gen') PROVE gen'.base # "none" /\ AllKnown'
    OBVIOUS
  <2>1. Usable(gen) /\ gen.base # "none" /\ AllKnown
    BY <1>1 DEF Usable, WholeInv
  <2>2. \A x \in Known : x.gen = gen.id => x \in Known'
    BY DEF ShipEffect
  <2>3. gen'.base # "none"
    BY <2>1 DEF ShipEffect
  <2> QED BY <1>1, <2>1, <2>2, <2>3 DEF AllKnown
<1>4. cycle'.at = "clean" => pending' = {}
  BY DEF ShipEffect, WholeInv
<1>5. cycle'.whole /\ cycle'.at \in {"upload", "clean"} => ReadAll'
  <2> SUFFICES ASSUME cycle'.whole, cycle'.at \in {"upload", "clean"} PROVE ReadAll'
    OBVIOUS
  <2>1. ReadAll /\ shipped'.upTo = shipped.upTo
    BY <1>1 DEF ShipEffect, WholeInv
  <2> QED BY <1>1, <2>1 DEF ReadAll, Boundaries
<1>6. ASSUME shipped'.result = "whole"
      PROVE  cycle'.at = "idle" /\ (gen'.broken \/ shipped'.upTo <= Restored')
  <2>1. cycle.whole /\ cycle'.at = "idle" /\ (NothingToPublish \/ EndClean)
    BY <1>6 DEF ShipEffect, WholeInv
  <2>2. /\ UNCHANGED <<gen, stored, base, commits>> /\ pending = {}
        /\ gen.base # "local" /\ cycle.at \in {"upload", "clean"}
    BY <2>1 DEF NothingToPublish, EndClean, WholeInv, LogInv, sqlite, bucket
  <2>3. ReadAll
    BY <2>1, <2>2 DEF WholeInv
  <2>4. Restored' = Restored
    BY <2>2 DEF Restored, Contiguous, OfGeneration
  <2>5. CASE ~gen.broken
    <3>1. Usable(gen)
      BY <2>3, <2>5 DEF ReadAll, Usable
    <3>2. gen.base = "published"
      BY <2>2, <3>1 DEF WholeInv, LogInv, TypeOK, Generation
    <3> QED BY <1>1, <2>1, <2>2, <2>3, <2>4, <3>1, <3>2, RestoresWhatIsRead
  <2> QED BY <1>1, <2>1, <2>5
<1> QED BY <1>1, <1>2, <1>3, <1>4, <1>5, <1>6 DEF WholeInv

LEMMA WholeInvStep ==
    ASSUME LogInv, LogInv', CursorInv, ChainInv, WholeInv, [Next]_vars
    PROVE  WholeInv'
<1>1. CASE UNCHANGED vars
  BY <1>1 DEF WholeInv, AllKnown, ReadAll, Known, Boundaries, Usable, Restored, Contiguous,
     OfGeneration, vars, sqlite, bucket
<1> QED BY <1>1, StepCases, WholeInvCommit, WholeInvCapture, WholeInvStart, WholeInvShip

\* A ship call that returns Ok having read everything has made everything
\* durable that was committed before it, unless it abandoned the generation it
\* was writing (ship of walship.rs, on which demote and final_sync rely before
\* the Lease is given up).
THEOREM WholeCallsAreDurable ==
    ASSUME ~TruncateMayFail
    PROVE  Spec => []WholeCycleIsDurable
<1>1. LogInv /\ LogInv' /\ CursorInv /\ ChainInv /\ WholeInv /\ [Next]_vars
        => CursorInv' /\ ChainInv' /\ WholeInv'
  BY CursorInvStep, ChainInvStep, WholeInvStep
<1>2. LogInv /\ WholeInv => WholeCycleIsDurable
  <2>1. LogInv => Restored \in Nat /\ shipped.upTo \in Nat
    BY RestoredFacts DEF RestoresTheLast, LogInv, TypeOK
  <2> QED BY <2>1 DEF WholeInv, WholeCycleIsDurable
<1> QED BY <1>1, <1>2, LogInvAlways, CursorInvInit, ChainInvInit, WholeInvInit, PTL DEF Spec

=============================================================================
