-------------------------- MODULE PeakReportProofs --------------------------
(***************************************************************************)
(* Proofs about the evening's peak report (PeakReport), for any number of  *)
(* bot processes, evenings, samples and faults.                            *)
(*                                                                         *)
(* PeakInv is inductive.  It says what the row lock is for: what a process *)
(* read of its row when it claimed it stays true until it lets go, so the  *)
(* post it deletes is the one on record and the count it sends is the      *)
(* peak.  A post that is up and not on record was counted in untracked     *)
(* when it got lost.                                                       *)
(***************************************************************************)
EXTENDS PeakReport, CommonLemmas, SequenceTheorems

PeakRow == [count : Int, posted : Int, message : Nat, wait : Int]
PostRow == [count : Int, up : BOOLEAN]
Ticking == [pc : {"sampling", "idle"}, date : Nat, age : Nat]
             \cup [pc : {"captured"}, date : Nat, count : Nat, at : Nat, age : Nat]
Posting == [pc : {"claimed", "deleted", "sent", "refused"}, row : Evenings, count : Int,
            previous : Nat, begun : Nat, age : Nat]

PeakTypes ==
  /\ now \in Nat
  /\ peaks \in [Evenings -> PeakRow]
  /\ posts \in [Evenings -> Seq(PostRow)]
  /\ job \in [Bots -> {Asleep} \cup Ticking \cup Posting]
  /\ samples \subseteq Nat \X Nat
  /\ untracked \in [Evenings -> Nat]

\* The samples that count for an evening, and the number before the first.
Sampled(d) == {-1} \cup {s[2] : s \in {s \in samples : s[1] = d}}
BestFits(d) ==
  /\ peaks[d].count \in Sampled(d)
  /\ \A count \in Sampled(d) : count <= peaks[d].count

Counts(d) == {-1} \cup {Counted(d, n) : n \in DOMAIN posts[d]}
ToldFits(d) ==
  /\ \A count \in Counts(d) : count <= peaks[d].count
  /\ \E top \in Counts(d) : \A count \in Counts(d) : count <= top

\* The post of an evening that is, or is about to be, on record.
Sent(d) == \E b \in Bots : job[b].pc = "sent" /\ job[b].row = d
Tracked(d) == IF Sent(d) THEN Len(posts[d]) ELSE peaks[d].message
Stray(d) == Up(d) \ {Tracked(d)}
PostsFit(d) ==
  /\ Cardinality(Stray(d)) <= untracked[d]
  /\ peaks[d].message \in 0..Len(posts[d])

\* FOR UPDATE: what a process reads of its row stays true while it holds it.
JobFits(b) ==
  /\ job[b].pc = "captured" => job[b].at = job[b].date
  /\ job[b].pc \in {"claimed", "deleted", "sent"} =>
       /\ job[b].count = peaks[job[b].row].count
       /\ job[b].previous = peaks[job[b].row].message
  /\ job[b].pc \in {"deleted", "sent"} => job[b].previous \notin Up(job[b].row)
OneHolder(b, c) == \A d \in Evenings : ~(Holds(b, d) /\ Holds(c, d))

PeakInv ==
  /\ PeakTypes
  /\ \A d \in Evenings : BestFits(d) /\ ToldFits(d) /\ PostsFit(d)
  /\ \A b \in Bots : JobFits(b)
  /\ \A b, c \in Bots : b # c => OneHolder(b, c)

-----------------------------------------------------------------------------
LEMMA MinIsElement ==
  ASSUME NEW S \in SUBSET Nat, S # {}
  PROVE  Min(S) \in S
  <1>1. PICK k \in S : TRUE
    OBVIOUS
  <1> DEFINE T == {n \in 0..k : k - n \in S}
  <1>2. 0 \in T /\ T \in SUBSET (0..k) /\ k \in Nat
    BY <1>1
  <1>3. PICK n \in T : \A j \in T : j <= n
    BY <1>2, NoEndlessClimb
  <1>4. k - n \in S /\ \A y \in S : k - n <= y
    <2>1. ASSUME NEW y \in S, y < k - n PROVE FALSE
      <3>1. k - y \in T
        BY <1>2, <1>3, <2>1
      <3>2. QED
        BY <1>2, <1>3, <2>1, <3>1
    <2>2. QED
      BY <1>2, <1>3, <2>1
  <1>5. QED
    BY <1>4 DEF Min

LEMMA MaxIs ==
  ASSUME NEW S \in SUBSET Int, NEW m \in S, \A x \in S : x <= m
  PROVE  Max(S) = m
  <1>1. PICK top : top = Max(S)
    OBVIOUS
  <1>2. top \in S /\ \A y \in S : top >= y
    BY <1>1 DEF Max
  <1>3. QED
    BY <1>1, <1>2

LEMMA JobAtWork ==
  ASSUME PeakTypes, NEW b \in Bots
  PROVE  /\ job[b].pc \in {"claimed", "deleted", "sent", "refused"} => job[b] \in Posting
         /\ job[b].pc \in {"sampling", "idle", "captured"} => job[b] \in Ticking
  <1>1. job[b] = Asleep \/ job[b] \in Ticking \/ job[b] \in Posting
    BY DEF PeakTypes
  <1>2. job[b] \in Ticking => job[b].pc \in {"sampling", "idle", "captured"}
    BY DEF Ticking
  <1>3. job[b] \in Posting => job[b].pc \in {"claimed", "deleted", "sent", "refused"}
    BY DEF Posting
  <1>4. job[b] = Asleep => job[b].pc = "asleep"
    BY DEF Asleep
  <1>5. QED
    BY <1>1, <1>2, <1>3, <1>4

LEMMA UpIsFinite ==
  ASSUME PeakTypes, NEW d \in Evenings
  PROVE  /\ posts[d] \in Seq(PostRow) /\ Len(posts[d]) \in Nat /\ DOMAIN posts[d] = 1..Len(posts[d])
         /\ Up(d) \subseteq 1..Len(posts[d]) /\ IsFiniteSet(Up(d))
         /\ IsFiniteSet(Stray(d)) /\ Cardinality(Stray(d)) \in Nat
  <1>1. posts[d] \in Seq(PostRow) /\ Len(posts[d]) \in Nat /\ DOMAIN posts[d] = 1..Len(posts[d])
    BY DEF PeakTypes
  <1>2. Up(d) \subseteq 1..Len(posts[d]) /\ IsFiniteSet(1..Len(posts[d]))
    <2>1. Up(d) \subseteq DOMAIN posts[d]
      BY DEF Up
    <2>2. QED
      BY <1>1, <2>1, FS_Interval
  <1>3. IsFiniteSet(Up(d)) /\ Stray(d) \subseteq Up(d)
    BY <1>2, FS_Subset DEF Stray
  <1>4. IsFiniteSet(Stray(d)) /\ Cardinality(Stray(d)) \in Nat
    BY <1>3, FS_Subset, FS_CardinalityType
  <1>5. QED
    BY <1>1, <1>2, <1>3, <1>4

LEMMA PeakInitInv == Init => PeakInv
  <1> SUFFICES ASSUME Init PROVE PeakInv
    OBVIOUS
  <1>1. PeakTypes
    <2>1. peaks \in [Evenings -> PeakRow] /\ job \in [Bots -> {Asleep} \cup Ticking \cup Posting]
      BY DEF Init, PeakRow, NoMessage
    <2>2. posts \in [Evenings -> Seq(PostRow)] /\ untracked \in [Evenings -> Nat]
      BY DEF Init
    <2>3. QED
      BY <2>1, <2>2 DEF Init, PeakTypes
  <1>2. \A b \in Bots : job[b].pc = "asleep"
    BY DEF Init, Asleep
  <1>3. ASSUME NEW d \in Evenings PROVE BestFits(d) /\ ToldFits(d) /\ PostsFit(d)
    <2>1. peaks[d].count = -1 /\ peaks[d].message = 0 /\ posts[d] = <<>> /\ untracked[d] = 0
      BY DEF Init, NoMessage
    <2>2. DOMAIN posts[d] = {} /\ Len(posts[d]) = 0
      BY <2>1
    <2>3. Sampled(d) = {-1} /\ Counts(d) = {-1}
      BY <2>2 DEF Init, Sampled, Counts
    <2>4. Stray(d) = {}
      BY <2>2 DEF Stray, Up
    <2>5. QED
      BY <2>1, <2>2, <2>3, <2>4, FS_EmptySet DEF BestFits, ToldFits, PostsFit
  <1>4. (\A b \in Bots : JobFits(b)) /\ \A b, c \in Bots : OneHolder(b, c)
    BY <1>2 DEF JobFits, OneHolder, Holds
  <1>5. QED
    BY <1>1, <1>3, <1>4 DEF PeakInv

\* Steps that change no count, no post and no record.
LEMMA QuietStep ==
  ASSUME PeakInv, PeakTypes', UNCHANGED <<posts, samples, untracked>>,
         \A d \in Evenings : /\ peaks'[d].count = peaks[d].count
                             /\ peaks'[d].message = peaks[d].message
                             /\ Sent(d)' <=> Sent(d),
         \A b \in Bots : JobFits(b)', \A b, c \in Bots : b # c => OneHolder(b, c)'
  PROVE  PeakInv'
  <1>1. ASSUME NEW d \in Evenings PROVE BestFits(d)' /\ ToldFits(d)' /\ PostsFit(d)'
    <2>1. BestFits(d) /\ ToldFits(d) /\ PostsFit(d)
      BY DEF PeakInv
    <2>2. Sampled(d)' = Sampled(d) /\ Counts(d)' = Counts(d)
      BY DEF Sampled, Counts, Counted
    <2>3. Stray(d)' = Stray(d)
      BY DEF Stray, Tracked, Up
    <2>4. QED
      BY <2>1, <2>2, <2>3 DEF BestFits, ToldFits, PostsFit
  <1>2. QED
    BY <1>1 DEF PeakInv

\* The others' view of one process's step.
LEMMA OthersFit ==
  ASSUME PeakInv, NEW b \in Bots, NEW work, job' = [job EXCEPT ![b] = work],
         UNCHANGED posts,
         \A d \in Evenings : /\ peaks'[d].count = peaks[d].count
                             /\ peaks'[d].message = peaks[d].message,
         \A d \in Evenings : Holds(b, d)' => Holds(b, d) \/ \A c \in Bots \ {b} : ~Holds(c, d)
  PROVE  /\ job'[b] = work /\ \A c \in Bots \ {b} : job'[c] = job[c] /\ JobFits(c)'
         /\ \A c, e \in Bots : c # e => OneHolder(c, e)'
  <1>1. job'[b] = work /\ \A c \in Bots \ {b} : job'[c] = job[c]
    BY DEF PeakInv, PeakTypes
  <1>2. ASSUME NEW c \in Bots \ {b} PROVE JobFits(c)'
    <2>1. JobFits(c) /\ job'[c] = job[c]
      BY <1>1 DEF PeakInv
    <2>2. job[c].pc \in {"claimed", "deleted", "sent"} => job[c].row \in Evenings
      BY JobAtWork DEF PeakInv, Posting
    <2>3. PICK row : row = job[c].row
      OBVIOUS
    <2>4. Up(job[c].row)' = Up(row)
      BY <2>1, <2>3 DEF Up
    <2>5. QED
      BY <2>1, <2>2, <2>3, <2>4 DEF JobFits
  <1>3. \A c \in Bots \ {b} : \A d : Holds(c, d)' <=> Holds(c, d)
    BY <1>1 DEF Holds
  <1>4. \A c, e \in Bots : c # e => OneHolder(c, e)'
    BY <1>3 DEF PeakInv, OneHolder
  <1>5. QED
    BY <1>1, <1>2, <1>4

\* A process goes on, and neither it nor anybody else posts.
LEMMA GoesStep ==
  ASSUME PeakInv, NEW b \in Bots, NEW work \in {Asleep} \cup Ticking \cup Posting,
         job' = [job EXCEPT ![b] = work],
         UNCHANGED <<now, posts, samples, untracked>>, peaks' \in [Evenings -> PeakRow],
         \A d \in Evenings : /\ peaks'[d].count = peaks[d].count
                             /\ peaks'[d].message = peaks[d].message,
         job[b].pc # "sent", work.pc # "sent", JobFits(b)',
         \A d \in Evenings : Holds(b, d)' => Holds(b, d) \/ \A c \in Bots \ {b} : ~Holds(c, d)
  PROVE  PeakInv'
  <1>1. /\ job'[b] = work /\ \A c \in Bots \ {b} : job'[c] = job[c] /\ JobFits(c)'
        /\ \A c, e \in Bots : c # e => OneHolder(c, e)'
    BY OthersFit
  <1>2. PeakTypes'
    BY DEF PeakInv, PeakTypes
  <1>3. \A d \in Evenings : Sent(d)' <=> Sent(d)
    BY <1>1 DEF Sent
  <1>4. QED
    BY <1>1, <1>2, <1>3, QuietStep

LEMMA BeatStep ==
  ASSUME PeakInv, Beat
  PROVE  PeakInv'
  <1>1. /\ job' = [b \in Bots |-> IF job[b] = Asleep THEN Asleep ELSE [job[b] EXCEPT !.age = 1]]
        /\ peaks' = [d \in Evenings |-> [peaks[d] EXCEPT !.wait = IF @ = 0 THEN 0 ELSE @ - 1]]
        /\ now' = now /\ posts' = posts /\ samples' = samples /\ untracked' = untracked
    BY DEF Beat
  <1>2. ASSUME NEW d \in Evenings
        PROVE  /\ peaks'[d] \in PeakRow /\ peaks'[d].count = peaks[d].count
               /\ peaks'[d].message = peaks[d].message
    <2>1. peaks[d] \in PeakRow
      BY DEF PeakInv, PeakTypes
    <2>2. peaks'[d] = [peaks[d] EXCEPT !.wait = IF peaks[d].wait = 0 THEN 0 ELSE peaks[d].wait - 1]
      BY <1>1
    <2>3. QED
      BY <2>1, <2>2 DEF PeakRow
  <1>3. ASSUME NEW b \in Bots
        PROVE  /\ job'[b] \in {Asleep} \cup Ticking \cup Posting
               /\ job'[b].pc = job[b].pc
               /\ job[b] \in Ticking /\ job[b].pc = "captured" =>
                    job'[b].at = job[b].at /\ job'[b].date = job[b].date
               /\ job[b] \in Posting =>
                    /\ job'[b].row = job[b].row /\ job'[b].count = job[b].count
                    /\ job'[b].previous = job[b].previous
    <2>1. job'[b] = IF job[b] = Asleep THEN Asleep ELSE [job[b] EXCEPT !.age = 1]
      BY <1>1
    <2>2. CASE job[b] = Asleep
      BY <2>1, <2>2 DEF Asleep, Ticking, Posting
    <2>3. CASE job[b] \in Ticking
      BY <2>1, <2>3 DEF Asleep, Ticking, Posting
    <2>4. CASE job[b] \in Posting
      BY <2>1, <2>4 DEF Asleep, Ticking, Posting
    <2>5. QED
      BY <2>2, <2>3, <2>4 DEF PeakInv, PeakTypes
  <1>4. PeakTypes'
    <2>1. peaks' \in [Evenings -> PeakRow] /\ job' \in [Bots -> {Asleep} \cup Ticking \cup Posting]
      BY <1>1, <1>2, <1>3
    <2>2. QED
      BY <1>1, <2>1 DEF PeakInv, PeakTypes
  <1>5. \A b \in Bots : \A d : Holds(b, d)' <=> Holds(b, d)
    BY <1>3, JobAtWork DEF PeakInv, Holds
  <1>6. \A d : Sent(d)' <=> Sent(d)
    BY <1>3, JobAtWork DEF PeakInv, Sent
  <1>7. ASSUME NEW b \in Bots PROVE JobFits(b)'
    <2>1. JobFits(b)
      BY DEF PeakInv
    <2>2. PICK row : row = job[b].row
      OBVIOUS
    <2>3. job[b].pc \in {"claimed", "deleted", "sent"} => row \in Evenings
      BY <2>2, JobAtWork DEF PeakInv, Posting
    <2>4. Up(job[b].row)' = Up(row) \/ job'[b].row # row
      BY <1>1 DEF Up
    <2>5. QED
      BY <1>2, <1>3, <2>1, <2>2, <2>3, <2>4, JobAtWork DEF PeakInv, JobFits
  <1>8. \A b, c \in Bots : b # c => OneHolder(b, c)'
    BY <1>5 DEF PeakInv, OneHolder
  <1>9. QED
    BY <1>1, <1>2, <1>4, <1>6, <1>7, <1>8, QuietStep

\* A tick begins, samples, or finds nothing to do.
LEMMA TickStep ==
  ASSUME PeakInv, NEW b \in Bots, NEW work \in {Asleep} \cup Ticking,
         job' = [job EXCEPT ![b] = work], job[b].pc # "sent",
         work.pc = "captured" => work.at = work.date,
         UNCHANGED <<now, peaks, posts, samples, untracked>>
  PROVE  PeakInv'
  <1>1. work.pc \in {"asleep", "sampling", "idle", "captured"}
    BY DEF Asleep, Ticking
  <1>2. job'[b] = work
    BY DEF PeakInv, PeakTypes
  <1>3. JobFits(b)'
    BY <1>1, <1>2 DEF JobFits
  <1>4. \A d : ~Holds(b, d)'
    BY <1>1, <1>2 DEF Holds
  <1>5. peaks' \in [Evenings -> PeakRow]
    BY DEF PeakInv, PeakTypes
  <1>6. QED
    BY <1>1, <1>3, <1>4, <1>5, GoesStep

LEMMA DateIsNat == ASSUME NEW t \in Nat PROVE Date(t) \in Nat
  BY DEF Date

LEMMA SamplingSteps ==
  ASSUME PeakInv, NEW b \in Bots, NEW count \in Nat, Begin(b) \/ Capture(b, count)
  PROVE  PeakInv'
  <1>1. now \in Nat /\ Date(now) \in Nat
    BY DateIsNat DEF PeakInv, PeakTypes
  <1>2. CASE Begin(b)
    <2>1. PICK work : /\ work = Asleep \/ work \in [pc : {"sampling", "idle"}, date : Nat, age : Nat]
                      /\ job' = [job EXCEPT ![b] = work]
      <3>1. CASE \E c \in Bots : Sampling(c)
        BY <1>2, <3>1 DEF Begin, Goes
      <3>2. CASE ~\E c \in Bots : Sampling(c)
        <4>1. PICK p : p = IF Active(now) THEN "sampling" ELSE "idle"
          OBVIOUS
        <4>2. job' = [job EXCEPT ![b] = [pc |-> p, date |-> Date(now), age |-> 0]]
          BY <1>2, <3>2, <4>1 DEF Begin, Goes
        <4>3. p \in {"sampling", "idle"}
          BY <4>1
        <4>4. QED
          BY <1>1, <4>2, <4>3
      <3>3. QED
        BY <3>1, <3>2
    <2>2. /\ job[b].pc # "sent" /\ UNCHANGED <<now, peaks, posts, samples, untracked>>
      BY <1>2 DEF Begin, Asleep
    <2>3. work \in {Asleep} \cup Ticking /\ work.pc # "captured"
      BY <2>1 DEF Ticking, Asleep
    <2>4. QED
      BY <2>1, <2>2, <2>3, TickStep
  <1>3. CASE Capture(b, count)
    <2>1. /\ job[b].pc = "sampling" /\ UNCHANGED <<now, peaks, posts, samples, untracked>>
      BY <1>3 DEF Capture
    <2>2. job[b].date \in Nat /\ job[b].age \in Nat
      BY <2>1, JobAtWork DEF PeakInv, Ticking
    <2>3. PICK work : /\ work \in Ticking /\ (work.pc = "captured" => work.at = work.date)
                      /\ job' = [job EXCEPT ![b] = work]
      <3>1. CASE Active(now) /\ Date(now) = job[b].date
        <4>1. PICK w : w = [pc |-> "captured", date |-> job[b].date, count |-> count,
                            at |-> Date(now), age |-> job[b].age]
          OBVIOUS
        <4>2. job' = [job EXCEPT ![b] = w]
          BY <1>3, <3>1, <4>1 DEF Capture, Goes
        <4>3. w \in Ticking /\ w.at = w.date
          BY <1>1, <2>2, <3>1, <4>1 DEF Ticking
        <4>4. QED
          BY <4>2, <4>3
      <3>2. CASE ~(Active(now) /\ Date(now) = job[b].date)
        <4>1. PICK w : w = [pc |-> "idle", date |-> job[b].date, age |-> job[b].age]
          OBVIOUS
        <4>2. job' = [job EXCEPT ![b] = w]
          BY <1>3, <3>2, <4>1 DEF Capture, Goes
        <4>3. w \in Ticking /\ w.pc # "captured"
          BY <2>2, <4>1 DEF Ticking
        <4>4. QED
          BY <4>2, <4>3
      <3>3. QED
        BY <3>1, <3>2
    <2>4. QED
      BY <2>1, <2>3, TickStep
  <1>4. QED
    BY <1>2, <1>3

\* The claimed row is one that nobody holds.
LEMMA ClaimStep ==
  ASSUME PeakInv, NEW b \in Bots, Claim(b)
  PROVE  PeakInv'
  <1>1. /\ job[b].pc = "idle" /\ UNCHANGED <<now, peaks, posts, samples, untracked>>
    BY DEF Claim
  <1>2. CASE Due(b) = {}
    <2>1. job' = [job EXCEPT ![b] = Asleep]
      BY <1>2 DEF Claim, Goes
    <2>2. QED
      BY <1>1, <2>1, TickStep DEF Asleep
  <1>3. CASE Due(b) # {}
    <2>1. PICK d : d = Min(Due(b))
      OBVIOUS
    <2>2. d \in Due(b)
      <3>1. Due(b) \in SUBSET Nat
        BY PeakAssumption DEF Due
      <3>2. QED
        BY <1>3, <2>1, <3>1, MinIsElement
    <2>3. d \in Evenings /\ \A c \in Bots : ~Holds(c, d)
      BY <2>2 DEF Due
    <2>4. PICK work : work = [pc |-> "claimed", row |-> d, count |-> peaks[d].count,
                              previous |-> peaks[d].message, begun |-> job[b].age, age |-> job[b].age]
      OBVIOUS
    <2>5. job' = [job EXCEPT ![b] = work]
      BY <1>3, <2>1, <2>4 DEF Claim, Goes
    <2>6. peaks[d] \in PeakRow /\ job[b].age \in Nat
      BY <1>1, <2>3, JobAtWork DEF PeakInv, PeakTypes, Ticking
    <2>7. work \in Posting /\ work.pc = "claimed" /\ work.row = d
          /\ work.count = peaks[d].count /\ work.previous = peaks[d].message
      BY <2>3, <2>4, <2>6 DEF Posting, PeakRow
    <2>8. job'[b] = work
      BY <2>5 DEF PeakInv, PeakTypes
    <2>9. JobFits(b)'
      BY <1>1, <2>7, <2>8 DEF JobFits
    <2>10. \A e \in Evenings : Holds(b, e)' => \A c \in Bots : ~Holds(c, e)
      BY <2>3, <2>7, <2>8 DEF Holds
    <2>11. peaks' \in [Evenings -> PeakRow]
      BY <1>1 DEF PeakInv, PeakTypes
    <2>12. QED
      BY <1>1, <2>5, <2>7, <2>9, <2>10, <2>11, GoesStep
  <1>4. QED
    BY <1>2, <1>3

LEMMA RefuseStep ==
  ASSUME PeakInv, NEW b \in Bots, Refuse(b)
  PROVE  PeakInv'
  <1>1. /\ job[b].pc \in {"claimed", "deleted"} /\ UNCHANGED <<now, peaks, posts, samples, untracked>>
        /\ job' = [job EXCEPT ![b] = [job[b] EXCEPT !.pc = "refused"]]
    BY DEF Refuse, Goes
  <1>2. PICK work : work = [job[b] EXCEPT !.pc = "refused"]
    OBVIOUS
  <1>3. work \in Posting /\ work.pc = "refused" /\ work.row = job[b].row
    BY <1>1, <1>2, JobAtWork DEF PeakInv, Posting
  <1>4. job'[b] = work
    BY <1>1, <1>2 DEF PeakInv, PeakTypes
  <1>5. JobFits(b)' /\ \A d : Holds(b, d)' => Holds(b, d)
    BY <1>1, <1>3, <1>4 DEF JobFits, Holds
  <1>6. peaks' \in [Evenings -> PeakRow]
    BY <1>1 DEF PeakInv, PeakTypes
  <1>7. QED
    BY <1>1, <1>2, <1>3, <1>5, <1>6, GoesStep

LEMMA PostponeStep ==
  ASSUME PeakInv, NEW b \in Bots, Postpone(b)
  PROVE  PeakInv'
  <1>1. /\ job[b].pc = "refused" /\ UNCHANGED <<now, posts, samples, untracked>>
        /\ job' = [job EXCEPT ![b] = Asleep]
    BY DEF Postpone, Goes
  <1>2. PICK wait : wait = 2 - (job[b].age - job[b].begun)
    OBVIOUS
  <1>3. peaks' = [peaks EXCEPT ![job[b].row].wait = wait]
    BY <1>2 DEF Postpone
  <1>4. wait \in Int /\ job[b].row \in Evenings
    BY <1>1, <1>2, JobAtWork DEF PeakInv, Posting
  <1>5. peaks \in [Evenings -> PeakRow]
    BY DEF PeakInv, PeakTypes
  <1>6. PICK row : row = [peaks[job[b].row] EXCEPT !.wait = wait]
    OBVIOUS
  <1>7. /\ row \in PeakRow /\ row.count = peaks[job[b].row].count
        /\ row.message = peaks[job[b].row].message
    BY <1>4, <1>5, <1>6 DEF PeakRow
  <1>8. peaks' = [peaks EXCEPT ![job[b].row] = row]
    BY <1>3, <1>6
  <1>9. /\ peaks' \in [Evenings -> PeakRow]
        /\ \A d \in Evenings : /\ peaks'[d].count = peaks[d].count
                               /\ peaks'[d].message = peaks[d].message
    BY <1>4, <1>5, <1>7, <1>8
  <1>10. job'[b] = Asleep
    BY <1>1 DEF PeakInv, PeakTypes
  <1>11. JobFits(b)' /\ Asleep.pc # "sent" /\ \A d : ~Holds(b, d)'
    BY <1>10 DEF JobFits, Holds, Asleep
  <1>12. QED
    BY <1>1, <1>9, <1>11, GoesStep

-----------------------------------------------------------------------------
\* A post is taken down.
LEMMA RemovedPost ==
  ASSUME PeakTypes, NEW d \in Evenings, NEW n \in 0..Len(posts[d]), posts' = Removed(d, n)
  PROVE  /\ posts' \in [Evenings -> Seq(PostRow)]
         /\ \A e \in Evenings : /\ Len(posts[e])' = Len(posts[e]) /\ Counts(e)' = Counts(e)
                                /\ Up(e)' = IF e = d THEN Up(e) \ {n} ELSE Up(e)
  <1>1. posts[d] \in Seq(PostRow) /\ DOMAIN posts[d] = 1..Len(posts[d]) /\ Len(posts[d]) \in Nat
    BY UpIsFinite
  <1>2. CASE n = 0
    <2>1. posts' = posts
      BY <1>2 DEF Removed, NoMessage
    <2>2. 0 \notin Up(d)
      BY <1>1 DEF Up
    <2>3. \A e : Up(e)' = Up(e) /\ Counts(e)' = Counts(e)
      BY <2>1 DEF Up, Counts, Counted
    <2>4. QED
      BY <1>2, <2>1, <2>2, <2>3 DEF PeakTypes
  <1>3. CASE n # 0
    <2>1. PICK row : row = [posts[d][n] EXCEPT !.up = FALSE]
      OBVIOUS
    <2>2. PICK s : s = [posts[d] EXCEPT ![n] = row]
      OBVIOUS
    <2>3. posts' = [posts EXCEPT ![d] = s]
      BY <1>3, <2>1, <2>2 DEF Removed, NoMessage
    <2>4. n \in 1..Len(posts[d])
      BY <1>1, <1>3
    <2>5. posts[d][n] \in PostRow
      BY <1>1, <2>4
    <2>6. row \in PostRow /\ row.count = posts[d][n].count /\ row.up = FALSE
      BY <2>1, <2>5 DEF PostRow
    <2>7. /\ s \in Seq(PostRow) /\ Len(s) = Len(posts[d])
          /\ \A i \in 1..Len(posts[d]) : s[i] = IF i = n THEN row ELSE posts[d][i]
      BY <1>1, <2>2, <2>4, <2>6, ExceptSeq
    <2>8. DOMAIN s = 1..Len(posts[d]) /\ \A i \in 1..Len(posts[d]) : s[i].count = posts[d][i].count
      BY <2>6, <2>7
    <2>9. posts'[d] = s /\ \A e \in Evenings \ {d} : posts'[e] = posts[e]
      BY <2>3 DEF PeakTypes
    <2>10. posts' \in [Evenings -> Seq(PostRow)]
      BY <2>3, <2>7 DEF PeakTypes
    <2>11. Counts(d)' = Counts(d)
      BY <1>1, <2>8, <2>9 DEF Counts, Counted
    <2>12. Up(d)' = Up(d) \ {n}
      <3>1. \A i : i \in Up(d)' <=> i \in 1..Len(posts[d]) /\ s[i].up
        BY <2>8, <2>9 DEF Up
      <3>2. \A i : i \in Up(d) <=> i \in 1..Len(posts[d]) /\ posts[d][i].up
        BY <1>1 DEF Up
      <3>3. \A i : i \in Up(d)' <=> i \in Up(d) /\ i # n
        BY <2>6, <2>7, <3>1, <3>2
      <3>4. QED
        BY <3>3
    <2>13. \A e \in Evenings \ {d} : Up(e)' = Up(e) /\ Counts(e)' = Counts(e)
      BY <2>9 DEF Up, Counts, Counted
    <2>14. QED
      BY <2>7, <2>9, <2>10, <2>11, <2>12, <2>13
  <1>4. QED
    BY <1>2, <1>3

LEMMA RemoveStep ==
  ASSUME PeakInv, NEW d \in Evenings, NEW n \in 0..Len(posts[d]), posts' = Removed(d, n),
         UNCHANGED <<now, peaks, samples, untracked>>,
         job' \in [Bots -> {Asleep} \cup Ticking \cup Posting],
         \A e \in Evenings : Sent(e)' <=> Sent(e),
         \A b \in Bots : job'[b] = job[b] \/ JobFits(b)',
         \A b \in Bots, e \in Evenings : Holds(b, e)' => Holds(b, e)
  PROVE  PeakInv'
  <1>1. /\ posts' \in [Evenings -> Seq(PostRow)]
        /\ \A e \in Evenings : /\ Len(posts[e])' = Len(posts[e]) /\ Counts(e)' = Counts(e)
                               /\ Up(e)' = IF e = d THEN Up(e) \ {n} ELSE Up(e)
    BY RemovedPost DEF PeakInv
  <1>2. PeakTypes'
    BY <1>1 DEF PeakInv, PeakTypes
  <1>3. ASSUME NEW e \in Evenings PROVE BestFits(e)' /\ ToldFits(e)' /\ PostsFit(e)'
    <2>1. BestFits(e) /\ ToldFits(e) /\ PostsFit(e)
      BY DEF PeakInv
    <2>2. Sampled(e)' = Sampled(e) /\ Tracked(e)' = Tracked(e)
      BY <1>1 DEF Sampled, Tracked
    <2>3. Stray(e)' \subseteq Stray(e)
      BY <1>1, <2>2 DEF Stray
    <2>4. IsFiniteSet(Stray(e)) /\ Cardinality(Stray(e)) \in Nat
      BY UpIsFinite DEF PeakInv
    <2>5. Cardinality(Stray(e)') <= Cardinality(Stray(e)) /\ Cardinality(Stray(e)') \in Nat
      BY <2>3, <2>4, FS_Subset, FS_CardinalityType
    <2>6. untracked[e] \in Nat
      BY DEF PeakInv, PeakTypes
    <2>7. Cardinality(Stray(e))' <= untracked'[e]
      BY <2>1, <2>4, <2>5, <2>6 DEF PostsFit
    <2>8. QED
      BY <1>1, <2>1, <2>2, <2>7 DEF BestFits, ToldFits, PostsFit
  <1>4. ASSUME NEW b \in Bots PROVE JobFits(b)'
    <2>1. CASE job'[b] = job[b]
      <3>1. JobFits(b)
        BY DEF PeakInv
      <3>2. PICK row : row = job[b].row
        OBVIOUS
      <3>3. job[b].pc \in {"claimed", "deleted", "sent"} => row \in Evenings
        BY <3>2, JobAtWork DEF PeakInv, Posting
      <3>4. row \in Evenings => Up(job[b].row)' \subseteq Up(row)
        <4>1. Up(job[b].row)' = Up(row)'
          BY <2>1, <3>2 DEF Up
        <4>2. QED
          BY <1>1, <4>1
      <3>5. QED
        BY <2>1, <3>1, <3>2, <3>3, <3>4 DEF JobFits
    <2>2. QED
      BY <2>1
  <1>5. \A b, c \in Bots : b # c => OneHolder(b, c)'
    BY DEF PeakInv, OneHolder
  <1>6. QED
    BY <1>2, <1>3, <1>4, <1>5 DEF PeakInv

\* The process that claimed the row deletes the post on record.
LEMMA DeleteStep ==
  ASSUME PeakInv, NEW b \in Bots, job[b].pc = "claimed", NEW pc \in {"deleted", "refused"},
         job' = [job EXCEPT ![b] = [job[b] EXCEPT !.pc = pc]],
         posts' = Removed(job[b].row, job[b].previous),
         UNCHANGED <<now, peaks, samples, untracked>>
  PROVE  PeakInv'
  <1>1. PICK d \in Evenings : d = job[b].row
    BY JobAtWork DEF PeakInv, Posting
  <1>2. PICK n : n = job[b].previous
    OBVIOUS
  <1>3. n = peaks[d].message /\ job[b].count = peaks[d].count /\ n \in 0..Len(posts[d])
    BY <1>1, <1>2 DEF PeakInv, JobFits, PostsFit
  <1>4. posts' = Removed(d, n)
    BY <1>1, <1>2
  <1>5. n \notin Up(d)'
    BY <1>3, <1>4, RemovedPost DEF PeakInv
  <1>6. PICK work : work = [job[b] EXCEPT !.pc = pc]
    OBVIOUS
  <1>7. /\ work \in Posting /\ work.pc = pc /\ work.row = d /\ work.count = job[b].count
        /\ work.previous = n
    BY <1>1, <1>2, <1>6, JobAtWork DEF PeakInv, Posting
  <1>8. job'[b] = work /\ \A c \in Bots \ {b} : job'[c] = job[c]
    BY <1>6 DEF PeakInv, PeakTypes
  <1>9. job' \in [Bots -> {Asleep} \cup Ticking \cup Posting]
    BY <1>6, <1>7 DEF PeakInv, PeakTypes
  <1>10. JobFits(b)'
    <2>1. Up(job[b].row)' = Up(d)'
      BY <1>7, <1>8 DEF Up
    <2>2. QED
      BY <1>3, <1>5, <1>7, <1>8, <2>1 DEF JobFits
  <1>11. \A e \in Evenings : Sent(e)' <=> Sent(e)
    BY <1>7, <1>8 DEF Sent
  <1>12. \A c \in Bots, e \in Evenings : Holds(c, e)' => Holds(c, e)
    BY <1>1, <1>7, <1>8 DEF Holds
  <1>13. QED
    BY <1>3, <1>4, <1>8, <1>9, <1>10, <1>11, <1>12, RemoveStep

LEMMA ModerateStep ==
  ASSUME PeakInv, NEW d \in Evenings, Moderate(d)
  PROVE  PeakInv'
  <1>1. UNCHANGED <<now, peaks, job, samples, untracked>>
    BY DEF Moderate
  <1>2. PICK n \in Up(d) : posts' = Removed(d, n)
    BY DEF Moderate
  <1>3. n \in 0..Len(posts[d])
    BY <1>2, UpIsFinite DEF PeakInv
  <1>4. \A b \in Bots, e \in Evenings : (Holds(b, e)' <=> Holds(b, e)) /\ (Sent(e)' <=> Sent(e))
    BY <1>1 DEF Holds, Sent
  <1>5. \A e \in Evenings : Sent(e)' <=> Sent(e)
    BY <1>1 DEF Sent
  <1>6. job' \in [Bots -> {Asleep} \cup Ticking \cup Posting] /\ \A b \in Bots : job'[b] = job[b]
    BY <1>1 DEF PeakInv, PeakTypes
  <1>7. QED
    BY <1>1, <1>2, <1>3, <1>4, <1>5, <1>6, RemoveStep

-----------------------------------------------------------------------------
\* Discord accepts a post of the peak: it is known to the process, or its
\* answer is lost and it is counted.
LEMMA AcceptStep ==
  ASSUME PeakInv, NEW b \in Bots, job[b].pc = "deleted",
         Accepted(job[b].row, job[b].count),
         NEW pc, job' = [job EXCEPT ![b] = [job[b] EXCEPT !.pc = pc]],
         \/ pc = "sent" /\ untracked' = untracked
         \/ pc = "refused" /\ untracked' = [untracked EXCEPT ![job[b].row] = @ + 1],
         UNCHANGED <<now, peaks, samples>>
  PROVE  /\ PeakInv'
         /\ Told(job[b].row)' = peaks[job[b].row].count
         /\ Told(job[b].row) <= peaks[job[b].row].count
         /\ \A d \in Evenings \ {job[b].row} : Told(d)' = Told(d)
  <1>1. PICK d \in Evenings : d = job[b].row
    BY JobAtWork DEF PeakInv, Posting
  <1>2. PICK count \in Int : count = peaks[d].count
    BY DEF PeakInv, PeakTypes, PeakRow
  <1>3. /\ job[b].count = count /\ job[b].previous = peaks[d].message
        /\ peaks[d].message \notin Up(d)
    BY <1>1, <1>2 DEF PeakInv, JobFits
  <1>4. PICK len \in Nat : len = Len(posts[d]) /\ DOMAIN posts[d] = 1..len
    BY UpIsFinite DEF PeakInv
  <1>5. PICK new \in PostRow : new = [count |-> count, up |-> TRUE]
    BY <1>2 DEF PostRow
  <1>6. posts' = [posts EXCEPT ![d] = Append(posts[d], new)]
    BY <1>1, <1>3, <1>5 DEF Accepted
  <1>7. posts[d] \in Seq(PostRow)
    BY UpIsFinite DEF PeakInv
  <1>8. PICK s : s = Append(posts[d], new)
    OBVIOUS
  <1>9. /\ s \in Seq(PostRow) /\ Len(s) = len + 1 /\ DOMAIN s = 1..(len + 1)
        /\ s[len + 1] = new /\ \A i \in 1..len : s[i] = posts[d][i]
    BY <1>4, <1>7, <1>8
  <1>10. posts'[d] = s /\ \A e \in Evenings \ {d} : posts'[e] = posts[e]
    BY <1>6, <1>8 DEF PeakInv, PeakTypes
  <1>11. posts' \in [Evenings -> Seq(PostRow)]
    BY <1>6, <1>8, <1>9 DEF PeakInv, PeakTypes
  <1>12. Up(d)' = Up(d) \cup {len + 1}
    <2>1. \A i : i \in Up(d)' <=> i \in 1..(len + 1) /\ s[i].up
      BY <1>9, <1>10 DEF Up
    <2>2. \A i : i \in Up(d) <=> i \in 1..len /\ posts[d][i].up
      BY <1>4 DEF Up
    <2>3. \A i : i \in Up(d)' <=> i \in Up(d) \/ i = len + 1
      BY <1>5, <1>9, <2>1, <2>2
    <2>4. QED
      BY <2>3
  <1>13. len + 1 \notin Up(d)
    BY <1>4 DEF Up
  <1>14. Counts(d)' = Counts(d) \cup {count}
    <2>1. \A k : k \in Counts(d)' <=> k = -1 \/ \E i \in 1..(len + 1) : k = s[i].count
      BY <1>9, <1>10 DEF Counts, Counted
    <2>2. \A k : k \in Counts(d) <=> k = -1 \/ \E i \in 1..len : k = posts[d][i].count
      BY <1>4 DEF Counts, Counted
    <2>3. /\ \A i \in 1..len : i \in 1..(len + 1) /\ s[i].count = posts[d][i].count
          /\ \A i \in 1..(len + 1) : i \in 1..len \/ i = len + 1
          /\ len + 1 \in 1..(len + 1) /\ s[len + 1].count = count
      BY <1>5, <1>9
    <2>4. \A k : k \in Counts(d) => k \in Counts(d)'
      BY <2>1, <2>2, <2>3
    <2>5. \A k : k \in Counts(d)' => k \in Counts(d) \/ k = count
      BY <2>1, <2>2, <2>3
    <2>6. count \in Counts(d)'
      BY <2>1, <2>3
    <2>7. QED
      BY <2>4, <2>5, <2>6
  <1>15. \A e \in Evenings \ {d} : Up(e)' = Up(e) /\ Counts(e)' = Counts(e)
    BY <1>10 DEF Up, Counts, Counted
  <1>16. Counts(d) \in SUBSET Int
    <2>1. \A i \in DOMAIN posts[d] : posts[d][i] \in PostRow
      BY <1>7
    <2>2. \A i \in DOMAIN posts[d] : posts[d][i].count \in Int
      BY <2>1 DEF PostRow
    <2>3. \A k \in Counts(d) : k = -1 \/ \E i \in DOMAIN posts[d] : k = posts[d][i].count
      BY DEF Counts, Counted
    <2>4. QED
      BY <2>2, <2>3
  <1>17. /\ \A k \in Counts(d) : k <= count
         /\ \E top \in Counts(d) : \A k \in Counts(d) : k <= top
    BY <1>2 DEF PeakInv, ToldFits
  <1>18. PICK work : work = [job[b] EXCEPT !.pc = pc]
    OBVIOUS
  <1>19. /\ work \in Posting /\ work.pc = pc /\ work.row = d /\ work.count = count
         /\ work.previous = peaks[d].message
    BY <1>1, <1>3, <1>18, JobAtWork DEF PeakInv, Posting
  <1>20. job'[b] = work /\ \A c \in Bots \ {b} : job'[c] = job[c]
    BY <1>18 DEF PeakInv, PeakTypes
  <1>21. job' \in [Bots -> {Asleep} \cup Ticking \cup Posting]
    BY <1>18, <1>19 DEF PeakInv, PeakTypes
  <1>22. \A c \in Bots \ {b} : ~Holds(c, d)
    BY <1>1 DEF PeakInv, OneHolder, Holds
  <1>23. peaks'[d].count = count /\ peaks' = peaks /\ samples' = samples
    BY <1>2
  <1>24. untracked' \in [Evenings -> Nat] /\ \A e \in Evenings \ {d} : untracked'[e] = untracked[e]
    BY <1>1 DEF PeakInv, PeakTypes
  <1>25. PeakTypes'
    BY <1>11, <1>21, <1>24 DEF PeakInv, PeakTypes
  <1>26. ~Sent(d) /\ (Sent(d)' <=> pc = "sent")
    <2>1. \A c \in Bots \ {b} : ~(job[c].pc = "sent" /\ job[c].row = d)
      BY <1>22 DEF Holds
    <2>2. QED
      BY <1>19, <1>20, <2>1 DEF Sent
  <1>27. BestFits(d)' /\ ToldFits(d)' /\ PostsFit(d)'
    <2>1. BestFits(d)'
      BY <1>23 DEF PeakInv, BestFits, Sampled
    <2>2. ToldFits(d)'
      BY <1>14, <1>17, <1>23 DEF ToldFits
    <2>3. Stray(d) = Up(d)
      BY <1>3, <1>26 DEF Stray, Tracked
    <2>4. /\ IsFiniteSet(Up(d)) /\ Cardinality(Up(d)) \in Nat /\ Cardinality(Up(d)) <= untracked[d]
          /\ untracked[d] \in Nat
      BY <2>3, UpIsFinite DEF PeakInv, PostsFit, PeakTypes
    <2>5. Len(posts[d])' = len + 1
      BY <1>9, <1>10
    <2>6. Cardinality(Stray(d))' <= untracked'[d]
      <3>1. CASE pc = "sent" /\ untracked' = untracked
        <4>1. Tracked(d)' = len + 1
          BY <1>26, <2>5, <3>1 DEF Tracked
        <4>2. Stray(d)' = Up(d)
          BY <1>12, <1>13, <4>1 DEF Stray
        <4>3. QED
          BY <2>4, <3>1, <4>2
      <3>2. CASE pc = "refused" /\ untracked' = [untracked EXCEPT ![d] = @ + 1]
        <4>1. Stray(d)' \subseteq Up(d) \cup {len + 1}
          BY <1>12 DEF Stray
        <4>2. /\ IsFiniteSet(Up(d) \cup {len + 1})
              /\ Cardinality(Up(d) \cup {len + 1}) = Cardinality(Up(d)) + 1
          BY <1>13, <2>4, FS_AddElement
        <4>3. /\ Cardinality(Stray(d)') <= Cardinality(Up(d)) + 1
              /\ Cardinality(Stray(d)') \in Nat
          BY <4>1, <4>2, FS_Subset, FS_CardinalityType
        <4>4. untracked'[d] = untracked[d] + 1
          BY <3>2 DEF PeakInv, PeakTypes
        <4>5. QED
          BY <2>4, <4>3, <4>4
      <3>3. QED
        BY <1>1, <3>1, <3>2
    <2>7. PostsFit(d)'
      <3>1. peaks[d].message \in 0..len
        BY <1>4 DEF PeakInv, PostsFit
      <3>2. peaks'[d].message \in 0..(len + 1)
        BY <1>4, <3>1
      <3>3. QED
        BY <2>5, <2>6, <3>2 DEF PostsFit
    <2>8. QED
      BY <2>1, <2>2, <2>7
  <1>28. ASSUME NEW e \in Evenings \ {d} PROVE BestFits(e)' /\ ToldFits(e)' /\ PostsFit(e)'
    <2>1. BestFits(e) /\ ToldFits(e) /\ PostsFit(e)
      BY DEF PeakInv
    <2>2. Sampled(e)' = Sampled(e) /\ Counts(e)' = Counts(e) /\ Len(posts[e])' = Len(posts[e])
      BY <1>10, <1>15 DEF Sampled
    <2>3. Sent(e)' <=> Sent(e)
      BY <1>1, <1>19, <1>20 DEF Sent
    <2>4. Stray(e)' = Stray(e)
      BY <1>15, <2>2, <2>3 DEF Stray, Tracked
    <2>5. QED
      BY <1>24, <2>1, <2>2, <2>4 DEF BestFits, ToldFits, PostsFit
  <1>29. ASSUME NEW c \in Bots PROVE JobFits(c)'
    <2>1. CASE c = b
      <3>1. Up(job[b].row)' = Up(d)'
        BY <1>19, <1>20 DEF Up
      <3>2. peaks[d].message # len + 1
        BY <1>4 DEF PeakInv, PostsFit
      <3>3. peaks[d].message \notin Up(d)'
        BY <1>3, <1>12, <3>2
      <3>4. pc # "captured"
        OBVIOUS
      <3>5. QED
        BY <1>2, <1>19, <1>20, <2>1, <3>1, <3>3, <3>4 DEF JobFits
    <2>2. CASE c # b
      <3>1. JobFits(c) /\ job'[c] = job[c]
        BY <1>20, <2>2 DEF PeakInv
      <3>2. PICK row : row = job[c].row
        OBVIOUS
      <3>3. job[c].pc \in {"claimed", "deleted", "sent"} => row \in Evenings \ {d}
        BY <1>22, <2>2, <3>2, JobAtWork DEF PeakInv, Posting, Holds
      <3>4. row \in Evenings \ {d} => Up(job[c].row)' = Up(row)
        <4>1. Up(job[c].row)' = Up(row)'
          BY <3>1, <3>2 DEF Up
        <4>2. QED
          BY <1>15, <4>1
      <3>5. QED
        BY <1>23, <3>1, <3>2, <3>3, <3>4 DEF JobFits
    <2>3. QED
      BY <2>1, <2>2
  <1>30. \A c, e \in Bots : c # e => OneHolder(c, e)'
    <2>1. \A c \in Bots, e \in Evenings : Holds(c, e)' => Holds(c, e)
      BY <1>1, <1>19, <1>20 DEF Holds
    <2>2. QED
      BY <2>1 DEF PeakInv, OneHolder
  <1>31. PeakInv'
    BY <1>25, <1>27, <1>28, <1>29, <1>30 DEF PeakInv
  <1>32. Told(d)' = count
    <2>1. Max(Counts(d) \cup {count}) = count
      BY <1>16, <1>17, MaxIs
    <2>2. Told(d)' = Max(Counts(d))'
      BY DEF Told, Counts
    <2>3. QED
      BY <1>14, <2>1, <2>2
  <1>33. Told(d) <= count
    <2>1. PICK top \in Counts(d) : \A k \in Counts(d) : k <= top
      BY <1>17
    <2>2. Max(Counts(d)) = top
      BY <1>16, <2>1, MaxIs
    <2>3. QED
      BY <1>17, <2>2 DEF Told, Counts
  <1>34. \A e \in Evenings \ {d} : Told(e)' = Told(e)
    <2>1. \A e : Told(e) = Max(Counts(e)) /\ Told(e)' = Max(Counts(e))'
      BY DEF Told, Counts
    <2>2. QED
      BY <1>15, <2>1
  <1>35. QED
    BY <1>1, <1>2, <1>31, <1>32, <1>33, <1>34

\* The accepted post goes on record.
LEMMA RecordStep ==
  ASSUME PeakInv, NEW b \in Bots, Record(b)
  PROVE  PeakInv' /\ \A e \in Evenings : peaks'[e].count = peaks[e].count
  <1>1. job[b].pc = "sent" /\ UNCHANGED <<now, posts, samples, untracked>>
        /\ job' = [job EXCEPT ![b] = Asleep]
    BY DEF Record, Goes
  <1>2. PICK d \in Evenings : d = job[b].row
    BY <1>1, JobAtWork DEF PeakInv, Posting
  <1>3. PICK len \in Nat : len = Len(posts[d])
    BY UpIsFinite DEF PeakInv
  <1>4. PICK row : row = [peaks[d] EXCEPT !.posted = peaks[d].count, !.message = len]
    OBVIOUS
  <1>5. peaks' = [peaks EXCEPT ![d] = row]
    BY <1>2, <1>3, <1>4 DEF Record
  <1>6. peaks[d] \in PeakRow
    BY DEF PeakInv, PeakTypes
  <1>7. row \in PeakRow /\ row.count = peaks[d].count /\ row.message = len
    BY <1>4, <1>6 DEF PeakRow
  <1>8. peaks'[d] = row /\ \A e \in Evenings \ {d} : peaks'[e] = peaks[e]
    BY <1>5 DEF PeakInv, PeakTypes
  <1>9. /\ job'[b] = Asleep /\ Asleep.pc = "asleep"
        /\ \A c \in Bots \ {b} : job'[c] = job[c]
    BY <1>1 DEF PeakInv, PeakTypes, Asleep
  <1>10. PeakTypes'
    <2>1. peaks' \in [Evenings -> PeakRow]
      BY <1>5, <1>7 DEF PeakInv, PeakTypes
    <2>2. job' \in [Bots -> {Asleep} \cup Ticking \cup Posting]
      BY <1>1 DEF PeakInv, PeakTypes
    <2>3. QED
      BY <1>1, <2>1, <2>2 DEF PeakInv, PeakTypes
  <1>11. \A c \in Bots \ {b} : ~Holds(c, d)
    BY <1>1, <1>2 DEF PeakInv, OneHolder, Holds
  <1>12. /\ Sent(d) /\ ~Sent(d)'
         /\ \A e \in Evenings \ {d} : Sent(e)' <=> Sent(e)
    BY <1>1, <1>2, <1>9, <1>11 DEF Sent, Holds
  <1>13. ASSUME NEW e \in Evenings PROVE BestFits(e)' /\ ToldFits(e)' /\ PostsFit(e)'
    <2>1. BestFits(e) /\ ToldFits(e) /\ PostsFit(e)
      BY DEF PeakInv
    <2>2. peaks'[e].count = peaks[e].count
      BY <1>7, <1>8
    <2>3. Sampled(e)' = Sampled(e) /\ Counts(e)' = Counts(e)
      BY <1>1 DEF Sampled, Counts, Counted
    <2>4. Tracked(e)' = Tracked(e)
      BY <1>1, <1>3, <1>7, <1>8, <1>12 DEF Tracked
    <2>5. Stray(e)' = Stray(e)
      BY <1>1, <2>4 DEF Stray, Up
    <2>6. peaks'[e].message \in 0..Len(posts[e])
      BY <1>3, <1>7, <1>8, <2>1 DEF PostsFit
    <2>7. QED
      BY <1>1, <2>1, <2>2, <2>3, <2>5, <2>6 DEF BestFits, ToldFits, PostsFit
  <1>14. ASSUME NEW c \in Bots PROVE JobFits(c)'
    <2>1. CASE c = b
      BY <1>9, <2>1 DEF JobFits
    <2>2. CASE c # b
      <3>1. JobFits(c) /\ job'[c] = job[c]
        BY <1>9, <2>2 DEF PeakInv
      <3>2. PICK held : held = job[c].row
        OBVIOUS
      <3>3. job[c].pc \in {"claimed", "deleted", "sent"} => held \in Evenings \ {d}
        BY <1>11, <2>2, <3>2, JobAtWork DEF PeakInv, Posting, Holds
      <3>4. Up(job[c].row)' = Up(held)
        BY <1>1, <3>1, <3>2 DEF Up
      <3>5. QED
        BY <1>8, <3>1, <3>2, <3>3, <3>4 DEF JobFits
    <2>3. QED
      BY <2>1, <2>2
  <1>15. \A c, e \in Bots : c # e => OneHolder(c, e)'
    <2>1. \A c \in Bots, e \in Evenings : Holds(c, e)' => Holds(c, e)
      BY <1>9 DEF Holds
    <2>2. QED
      BY <2>1 DEF PeakInv, OneHolder
  <1>16. \A e \in Evenings : peaks'[e].count = peaks[e].count
    BY <1>7, <1>8
  <1>17. QED
    BY <1>10, <1>13, <1>14, <1>15, <1>16 DEF PeakInv

\* A sample is committed.
LEMMA SaveStep ==
  ASSUME PeakInv, NEW b \in Bots, Save(b)
  PROVE  /\ PeakInv'
         /\ \A e \in Evenings \ {job[b].date} : peaks'[e] = peaks[e]
         /\ \A e \in Evenings : peaks'[e].count >= peaks[e].count
  <1>1. /\ job[b].pc = "captured" /\ UNCHANGED <<now, posts, untracked>>
        /\ ~\E c \in Bots : Holds(c, job[b].date)
    BY DEF Save
  <1>2. PICK d \in Nat, count \in Nat : d = job[b].date /\ count = job[b].count /\ d = job[b].at
    BY <1>1, JobAtWork DEF PeakInv, Ticking, JobFits
  <1>3. peaks' = [peaks EXCEPT ![d] = Saved(@, count)] /\ samples' = samples \cup {<<d, count>>}
    BY <1>2 DEF Save
  <1>4. PICK work : work = [pc |-> "idle", date |-> d, age |-> job[b].age]
    OBVIOUS
  <1>5. work \in Ticking /\ work.pc = "idle" /\ job' = [job EXCEPT ![b] = work]
    BY <1>1, <1>2, <1>4, JobAtWork DEF PeakInv, Ticking, Save, Goes
  <1>6. job'[b] = work /\ \A c \in Bots \ {b} : job'[c] = job[c]
    BY <1>5 DEF PeakInv, PeakTypes
  <1>7. \A e \in Evenings \ {d} : peaks'[e] = peaks[e]
    BY <1>3 DEF PeakInv, PeakTypes
  <1>8. d \in Evenings =>
          /\ peaks'[d] \in PeakRow /\ peaks'[d].message = peaks[d].message
          /\ peaks'[d].count = IF count > peaks[d].count THEN count ELSE peaks[d].count
    <2> SUFFICES ASSUME d \in Evenings
                 PROVE  /\ peaks'[d] \in PeakRow /\ peaks'[d].message = peaks[d].message
                        /\ peaks'[d].count = IF count > peaks[d].count THEN count ELSE peaks[d].count
      OBVIOUS
    <2>1. peaks[d] \in PeakRow /\ peaks'[d] = Saved(peaks[d], count)
      BY <1>3 DEF PeakInv, PeakTypes
    <2>2. peaks[d].count \in Int /\ count \in Int
      BY <1>2, <2>1 DEF PeakRow
    <2>3. CASE count > peaks[d].count
      <3>1. PICK row : row = [peaks[d] EXCEPT !.count = count, !.wait = 0]
        OBVIOUS
      <3>2. row \in PeakRow /\ row.message = peaks[d].message /\ row.count = count
        <4>1. PICK old \in PeakRow : old = peaks[d]
          BY <2>1
        <4>2. row = [old EXCEPT !.count = count, !.wait = 0]
          BY <3>1, <4>1
        <4>3. row.message = old.message /\ row.count = count /\ row.posted = old.posted /\ row.wait = 0
          BY <4>2 DEF PeakRow
        <4>4. row \in PeakRow
          <5>1. PICK r : r = [old EXCEPT !.count = count]
            OBVIOUS
          <5>2. r \in PeakRow
            BY <2>2, <4>1, <5>1 DEF PeakRow
          <5>3. row = [r EXCEPT !.wait = 0]
            BY <4>1, <4>2, <5>1 DEF PeakRow
          <5>4. QED
            BY <5>2, <5>3 DEF PeakRow
        <4>5. QED
          BY <4>1, <4>3, <4>4
      <3>3. peaks'[d] = row
        BY <2>1, <2>3, <3>1 DEF Saved
      <3>4. QED
        BY <2>3, <3>2, <3>3
    <2>4. CASE ~(count > peaks[d].count)
      BY <2>1, <2>4 DEF Saved
    <2>5. QED
      BY <2>3, <2>4
  <1>9. \A e \in Evenings : peaks[e].count \in Int
    BY DEF PeakInv, PeakTypes, PeakRow
  <1>10. PeakTypes'
    <2>1. peaks' \in [Evenings -> PeakRow]
      BY <1>3, <1>7, <1>8 DEF PeakInv, PeakTypes
    <2>2. job' \in [Bots -> {Asleep} \cup Ticking \cup Posting] /\ samples' \subseteq Nat \X Nat
      BY <1>3, <1>5 DEF PeakInv, PeakTypes
    <2>3. QED
      BY <1>1, <2>1, <2>2 DEF PeakInv, PeakTypes
  <1>11. /\ d \in Evenings => Sampled(d)' = Sampled(d) \cup {count}
         /\ \A e \in Evenings \ {d} : Sampled(e)' = Sampled(e)
    <2>1. \A e : \A k : k \in Sampled(e)' <=> k = -1 \/ \E s \in samples' : s[1] = e /\ k = s[2]
      BY DEF Sampled
    <2>2. \A e : \A k : k \in Sampled(e) <=> k = -1 \/ \E s \in samples : s[1] = e /\ k = s[2]
      BY DEF Sampled
    <2>3. <<d, count>>[1] = d /\ <<d, count>>[2] = count
      OBVIOUS
    <2>4. \A e : \A k : k \in Sampled(e) => k \in Sampled(e)'
      BY <1>3, <2>1, <2>2
    <2>5. \A e : \A k : k \in Sampled(e)' => k \in Sampled(e) \/ (e = d /\ k = count)
      BY <1>3, <2>1, <2>2, <2>3
    <2>6. count \in Sampled(d)'
      <3>1. <<d, count>> \in samples'
        BY <1>3
      <3>2. QED
        BY <2>1, <2>3, <3>1
    <2>7. Sampled(d)' = Sampled(d) \cup {count}
      <3>1. \A k : k \in Sampled(d)' <=> k \in Sampled(d) \/ k = count
        BY <2>4, <2>5, <2>6
      <3>2. QED
        BY <3>1
    <2>8. ASSUME NEW e \in Evenings \ {d} PROVE Sampled(e)' = Sampled(e)
      <3>1. \A k : k \in Sampled(e)' <=> k \in Sampled(e)
        BY <2>4, <2>5
      <3>2. QED
        BY <3>1
    <2>9. QED
      BY <2>7, <2>8
  <1>12. ASSUME NEW e \in Evenings PROVE BestFits(e)' /\ ToldFits(e)' /\ PostsFit(e)'
    <2>1. BestFits(e) /\ ToldFits(e) /\ PostsFit(e)
      BY DEF PeakInv
    <2>2. /\ peaks'[e].count \in Int /\ peaks'[e].count >= peaks[e].count
          /\ peaks'[e].message = peaks[e].message
      BY <1>7, <1>8, <1>9
    <2>3. Sampled(e) \subseteq Int /\ Counts(e) \subseteq Int
      <3>1. \A s \in samples : s[2] \in Int
        BY DEF PeakInv, PeakTypes
      <3>2. \A i \in DOMAIN posts[e] : posts[e][i] \in PostRow
        BY UpIsFinite DEF PeakInv
      <3>3. \A i \in DOMAIN posts[e] : posts[e][i].count \in Int
        BY <3>2 DEF PostRow
      <3>4. QED
        BY <3>1, <3>3 DEF Sampled, Counts, Counted
    <2>4. BestFits(e)'
      <3>1. CASE e = d
        <4>1. peaks'[e].count \in Sampled(e)'
          BY <1>8, <1>11, <2>1, <3>1 DEF BestFits
        <4>2. \A k \in Sampled(e)' : k <= peaks'[e].count
          BY <1>2, <1>8, <1>9, <1>11, <2>1, <2>2, <2>3, <3>1 DEF BestFits
        <4>3. QED
          BY <4>1, <4>2 DEF BestFits
      <3>2. CASE e # d
        BY <1>7, <1>11, <2>1, <3>2 DEF BestFits
      <3>3. QED
        BY <3>1, <3>2
    <2>5. Counts(e)' = Counts(e)
      BY <1>1 DEF Counts, Counted
    <2>6. ToldFits(e)'
      <3>1. \A k \in Counts(e) : k <= peaks'[e].count
        BY <1>9, <2>1, <2>2, <2>3 DEF ToldFits
      <3>2. QED
        BY <2>1, <2>5, <3>1 DEF ToldFits
    <2>7. Sent(e)' <=> Sent(e)
      BY <1>1, <1>5, <1>6 DEF Sent
    <2>8. Stray(e)' = Stray(e)
      BY <1>1, <2>2, <2>7 DEF Stray, Tracked, Up
    <2>9. QED
      BY <1>1, <2>1, <2>2, <2>4, <2>6, <2>8 DEF PostsFit
  <1>13. ASSUME NEW c \in Bots PROVE JobFits(c)'
    <2>1. CASE c = b
      BY <1>5, <1>6, <2>1 DEF JobFits
    <2>2. CASE c # b
      <3>1. JobFits(c) /\ job'[c] = job[c]
        BY <1>6, <2>2 DEF PeakInv
      <3>2. PICK held : held = job[c].row
        OBVIOUS
      <3>3. job[c].pc \in {"claimed", "deleted", "sent"} => held \in Evenings \ {d}
        BY <1>1, <1>2, <2>2, <3>2, JobAtWork DEF PeakInv, Posting, Holds
      <3>4. Up(job[c].row)' = Up(held)
        BY <1>1, <3>1, <3>2 DEF Up
      <3>5. QED
        BY <1>7, <3>1, <3>2, <3>3, <3>4 DEF JobFits
    <2>3. QED
      BY <2>1, <2>2
  <1>14. \A c, e \in Bots : c # e => OneHolder(c, e)'
    <2>1. \A c \in Bots, e \in Evenings : Holds(c, e)' => Holds(c, e)
      BY <1>5, <1>6 DEF Holds
    <2>2. QED
      BY <2>1 DEF PeakInv, OneHolder
  <1>15. \A e \in Evenings : peaks'[e].count >= peaks[e].count
    BY <1>7, <1>8, <1>9
  <1>16. QED
    BY <1>2, <1>7, <1>10, <1>12, <1>13, <1>14, <1>15 DEF PeakInv

\* A process dies; a post it had not recorded is counted.
LEMMA AbortStep ==
  ASSUME PeakInv, NEW b \in Bots, Abort(b)
  PROVE  PeakInv'
  <1>1. UNCHANGED <<now, peaks, posts, samples>> /\ job' = [job EXCEPT ![b] = Asleep]
    BY DEF Abort, Goes
  <1>2. CASE job[b].pc # "sent"
    <2>1. UNCHANGED <<now, peaks, posts, samples, untracked>>
      BY <1>1, <1>2 DEF Abort
    <2>2. Asleep \in {Asleep} \cup Ticking /\ Asleep.pc # "captured"
      BY DEF Asleep
    <2>3. QED
      BY <1>1, <1>2, <2>1, <2>2, TickStep
  <1>3. CASE job[b].pc = "sent"
    <2>1. PICK d \in Evenings : d = job[b].row
      BY <1>3, JobAtWork DEF PeakInv, Posting
    <2>2. untracked' = [untracked EXCEPT ![d] = @ + 1]
      BY <1>3, <2>1 DEF Abort
    <2>3. /\ untracked' \in [Evenings -> Nat] /\ untracked[d] \in Nat /\ untracked'[d] = untracked[d] + 1
          /\ \A e \in Evenings \ {d} : untracked'[e] = untracked[e]
      BY <2>2 DEF PeakInv, PeakTypes
    <2>4. \A e \in Evenings : Holds(b, e)' => Holds(b, e)
      <3>1. job'[b] = Asleep
        BY <1>1 DEF PeakInv, PeakTypes
      <3>2. QED
        BY <3>1 DEF Holds, Asleep
    <2>5. /\ job'[b] = Asleep /\ \A c \in Bots \ {b} : job'[c] = job[c] /\ JobFits(c)'
          /\ \A c, e \in Bots : c # e => OneHolder(c, e)'
      <3>1. posts' = posts /\ peaks' = peaks
        BY <1>1
      <3>2. QED
        BY <1>1, <2>4, <3>1, OthersFit
    <2>6. Asleep.pc = "asleep" /\ JobFits(b)'
      BY <2>5 DEF JobFits, Asleep
    <2>7. PeakTypes'
      BY <1>1, <2>3 DEF PeakInv, PeakTypes
    <2>8. \A e \in Evenings \ {d} : Sent(e)' <=> Sent(e)
      BY <2>1, <2>5, <2>6 DEF Sent
    <2>9. ASSUME NEW e \in Evenings PROVE BestFits(e)' /\ ToldFits(e)' /\ PostsFit(e)'
      <3>1. BestFits(e) /\ ToldFits(e) /\ PostsFit(e)
        BY DEF PeakInv
      <3>2. Sampled(e)' = Sampled(e) /\ Counts(e)' = Counts(e)
        BY <1>1 DEF Sampled, Counts, Counted
      <3>3. Cardinality(Stray(e))' <= untracked'[e]
        <4>1. CASE e = d
          <5>1. PICK len : len = Len(posts[d])
            OBVIOUS
          <5>2. Stray(d) = Up(d) \ {len}
            BY <1>3, <2>1, <5>1 DEF Stray, Tracked, Sent
          <5>3. Stray(d)' \subseteq Stray(d) \cup {len}
            <6>1. Stray(d)' \subseteq Up(d)
              BY <1>1 DEF Stray, Up
            <6>2. QED
              BY <5>2, <6>1
          <5>4. /\ IsFiniteSet(Stray(d)) /\ Cardinality(Stray(d)) \in Nat
                /\ Cardinality(Stray(d)) <= untracked[d]
            BY <3>1, <4>1, UpIsFinite DEF PeakInv, PostsFit
          <5>5. /\ IsFiniteSet(Stray(d) \cup {len})
                /\ Cardinality(Stray(d) \cup {len}) = Cardinality(Stray(d)) + 1
            BY <5>2, <5>4, FS_AddElement
          <5>6. /\ Cardinality(Stray(d)') <= Cardinality(Stray(d)) + 1
                /\ Cardinality(Stray(d)') \in Nat
            BY <5>3, <5>5, FS_Subset, FS_CardinalityType
          <5>7. QED
            BY <2>3, <4>1, <5>4, <5>6
        <4>2. CASE e # d
          <5>1. Stray(e)' = Stray(e)
            BY <1>1, <2>8, <4>2 DEF Stray, Tracked, Up
          <5>2. QED
            BY <2>3, <3>1, <4>2, <5>1 DEF PostsFit
        <4>3. QED
          BY <4>1, <4>2
      <3>4. QED
        BY <1>1, <3>1, <3>2, <3>3 DEF BestFits, ToldFits, PostsFit
    <2>10. QED
      BY <2>5, <2>6, <2>7, <2>9 DEF PeakInv
  <1>4. QED
    BY <1>2, <1>3

-----------------------------------------------------------------------------
\* What the board shows of a step.
BoardSame == \A d \in Evenings : peaks'[d].count = peaks[d].count /\ Told(d)' = Told(d)

LEMMA SamePosts ==
  ASSUME PeakInv, \A d \in Evenings : peaks'[d].count = peaks[d].count,
         \A d \in Evenings : Counts(d)' = Counts(d)
  PROVE  BoardSame
  <1>1. \A d : Told(d) = Max(Counts(d)) /\ Told(d)' = Max(Counts(d))'
    BY DEF Told, Counts
  <1>2. QED
    BY <1>1 DEF BoardSame

LEMMA SameBoard ==
  ASSUME BoardSame
  PROVE  UNCHANGED Board!boardVars
  <1>1. [d \in Evenings |-> peaks[d].count]' = [d \in Evenings |-> peaks[d].count]
    BY DEF BoardSame
  <1>2. [d \in Evenings |-> Told(d)]' = [d \in Evenings |-> Told(d)]
    BY DEF BoardSame
  <1>3. QED
    BY <1>1, <1>2 DEF Board!boardVars

LEMMA Removes ==
  ASSUME PeakInv, NEW d \in Evenings, NEW n \in 0..Len(posts[d]), posts' = Removed(d, n),
         peaks' = peaks
  PROVE  BoardSame
  <1>1. \A e \in Evenings : Counts(e)' = Counts(e)
    BY RemovedPost DEF PeakInv
  <1>2. QED
    BY <1>1, SamePosts

\* A post shows the peak, unless the channel was told it before.
LEMMA Shows ==
  ASSUME PeakInv, NEW d \in Evenings, peaks' = peaks,
         Told(d)' = peaks[d].count, Told(d) <= peaks[d].count,
         \A e \in Evenings \ {d} : Told(e)' = Told(e)
  PROVE  BoardSame \/ Board!Show(d)
  <1>1. CASE Told(d) = peaks[d].count
    BY <1>1 DEF BoardSame
  <1>2. CASE Told(d) # peaks[d].count
    <2>1. Told(d) \in Int /\ peaks[d].count \in Int
      <3>1. \A i \in DOMAIN posts[d] : posts[d][i] \in PostRow
        BY UpIsFinite DEF PeakInv
      <3>2. \A i \in DOMAIN posts[d] : posts[d][i].count \in Int
        BY <3>1 DEF PostRow
      <3>3. Counts(d) \in SUBSET Int
        BY <3>2 DEF Counts, Counted
      <3>4. PICK top \in Counts(d) : \A k \in Counts(d) : k <= top
        BY DEF PeakInv, ToldFits
      <3>5. Max(Counts(d)) = top
        BY <3>3, <3>4, MaxIs
      <3>6. QED
        BY <3>3, <3>4, <3>5 DEF Told, Counts, PeakInv, PeakTypes, PeakRow
    <2>2. Told(d) < peaks[d].count
      BY <1>2, <2>1
    <2>3. [e \in Evenings |-> Told(e)]' = [[e \in Evenings |-> Told(e)] EXCEPT ![d] = peaks[d].count]
      OBVIOUS
    <2>4. [e \in Evenings |-> peaks[e].count]' = [e \in Evenings |-> peaks[e].count]
      OBVIOUS
    <2>5. QED
      BY <2>2, <2>3, <2>4 DEF Board!Show
  <1>3. QED
    BY <1>1, <1>2

LEMMA PeakStep ==
  ASSUME PeakInv, [Next]_vars
  PROVE  PeakInv' /\ (BoardSame \/ \E d \in Evenings : Board!Raise(d) \/ Board!Show(d))
  <1>1. ASSUME peaks' = peaks, posts' = posts PROVE BoardSame
    BY <1>1, SamePosts DEF Counts, Counted
  <1>2. CASE UNCHANGED vars
    <2>1. UNCHANGED <<now, peaks, posts, job, samples, untracked>>
      BY <1>2 DEF vars
    <2>2. PeakInv'
      <3>1. PeakTypes' /\ \A d \in Evenings : Sent(d)' <=> Sent(d)
        BY <2>1 DEF PeakInv, PeakTypes, Sent
      <3>2. (\A b \in Bots : JobFits(b)') /\ \A b, c \in Bots : b # c => OneHolder(b, c)'
        BY <2>1 DEF PeakInv, JobFits, OneHolder, Holds, Up
      <3>3. QED
        BY <2>1, <3>1, <3>2, QuietStep
    <2>3. QED
      BY <1>1, <2>1, <2>2
  <1>3. CASE TimePasses
    <2>1. now' = now + 1 /\ UNCHANGED <<peaks, posts, job, samples, untracked>>
      BY <1>3 DEF TimePasses
    <2>2. PeakInv'
      <3>1. PeakTypes' /\ \A d \in Evenings : Sent(d)' <=> Sent(d)
        BY <2>1 DEF PeakInv, PeakTypes, Sent
      <3>2. (\A b \in Bots : JobFits(b)') /\ \A b, c \in Bots : b # c => OneHolder(b, c)'
        BY <2>1 DEF PeakInv, JobFits, OneHolder, Holds, Up
      <3>3. QED
        BY <2>1, <3>1, <3>2, QuietStep
    <2>3. QED
      BY <1>1, <2>1, <2>2
  <1>4. CASE Beat
    <2>1. \A d \in Evenings : peaks'[d].count = peaks[d].count
      <3>1. \A d \in Evenings : peaks[d] \in PeakRow
        BY DEF PeakInv, PeakTypes
      <3>2. peaks' = [d \in Evenings |-> [peaks[d] EXCEPT !.wait = IF @ = 0 THEN 0 ELSE @ - 1]]
        BY <1>4 DEF Beat
      <3>3. QED
        BY <3>1, <3>2 DEF PeakRow
    <2>2. posts' = posts
      BY <1>4 DEF Beat
    <2>3. BoardSame
      BY <2>1, <2>2, SamePosts DEF Counts, Counted
    <2>4. QED
      BY <1>4, <2>3, BeatStep
  <1>5. ASSUME NEW b \in Bots, Begin(b) \/ (\E count \in 0..MaxMembers : Capture(b, count))
        PROVE  PeakInv' /\ BoardSame
    <2>1. peaks' = peaks /\ posts' = posts
      BY <1>5 DEF Begin, Capture
    <2>2. PICK count \in Nat : Begin(b) \/ Capture(b, count)
      BY <1>5, PeakAssumption
    <2>3. QED
      BY <1>1, <2>1, <2>2, SamplingSteps
  <1>6. ASSUME NEW b \in Bots, Save(b)
        PROVE  PeakInv' /\ (BoardSame \/ \E d \in Evenings : Board!Raise(d))
    <2>1. /\ PeakInv'
          /\ \A e \in Evenings \ {job[b].date} : peaks'[e] = peaks[e]
          /\ \A e \in Evenings : peaks'[e].count >= peaks[e].count
      BY <1>6, SaveStep
    <2>2. PICK d : d = job[b].date
      OBVIOUS
    <2>3. posts' = posts
      BY <1>6 DEF Save
    <2>4. \A e \in Evenings : Counts(e)' = Counts(e)
      BY <2>3 DEF Counts, Counted
    <2>5. CASE \A e \in Evenings : peaks'[e].count = peaks[e].count
      BY <2>1, <2>4, <2>5, SamePosts
    <2>6. CASE ~\A e \in Evenings : peaks'[e].count = peaks[e].count
      <3>1. d \in Evenings /\ peaks'[d].count # peaks[d].count
        BY <2>1, <2>2, <2>6
      <3>2. peaks'[d].count > peaks[d].count
        BY <2>1, <3>1 DEF PeakInv, PeakTypes, PeakRow
      <3>3. [e \in Evenings |-> peaks[e].count]'
              = [[e \in Evenings |-> peaks[e].count] EXCEPT ![d] = peaks'[d].count]
        BY <2>1, <2>2, <3>1
      <3>4. \A e : Told(e) = Max(Counts(e)) /\ Told(e)' = Max(Counts(e))'
        BY DEF Told, Counts
      <3>5. [e \in Evenings |-> Told(e)]' = [e \in Evenings |-> Told(e)]
        BY <2>4, <3>4
      <3>6. Board!Raise(d)
        BY <3>1, <3>2, <3>3, <3>5 DEF Board!Raise
      <3>7. QED
        BY <2>1, <3>1, <3>6
    <2>7. QED
      BY <2>5, <2>6
  <1>7. ASSUME NEW b \in Bots, Claim(b) \/ Refuse(b) \/ Abort(b)
        PROVE  PeakInv' /\ BoardSame
    <2>1. peaks' = peaks /\ posts' = posts
      BY <1>7 DEF Claim, Refuse, Abort
    <2>2. QED
      BY <1>1, <1>7, <2>1, ClaimStep, RefuseStep, AbortStep
  <1>8. ASSUME NEW b \in Bots, Delete(b) PROVE PeakInv' /\ BoardSame
    <2>1. /\ job[b].pc = "claimed" /\ posts' = Removed(job[b].row, job[b].previous)
          /\ job' = [job EXCEPT ![b] = [job[b] EXCEPT !.pc = "deleted"]]
          /\ UNCHANGED <<now, peaks, samples, untracked>>
      BY <1>8 DEF Delete, Goes
    <2>2. job[b].row \in Evenings
      BY <2>1, JobAtWork DEF PeakInv, Posting
    <2>3. job[b].previous \in 0..Len(posts[job[b].row])
      BY <2>1, <2>2 DEF PeakInv, JobFits, PostsFit
    <2>4. BoardSame
      BY <2>1, <2>2, <2>3, Removes
    <2>5. QED
      BY <2>1, <2>4, DeleteStep
  <1>9. ASSUME NEW b \in Bots, Send(b)
        PROVE  PeakInv' /\ (BoardSame \/ \E d \in Evenings : Board!Show(d))
    <2>1. /\ job[b].pc = "deleted" /\ Accepted(job[b].row, job[b].count)
          /\ job' = [job EXCEPT ![b] = [job[b] EXCEPT !.pc = "sent"]] /\ untracked' = untracked
          /\ UNCHANGED <<now, peaks, samples>>
      BY <1>9 DEF Send, Goes
    <2>2. job[b].row \in Evenings
      BY <2>1, JobAtWork DEF PeakInv, Posting
    <2>3. /\ PeakInv' /\ Told(job[b].row)' = peaks[job[b].row].count
          /\ Told(job[b].row) <= peaks[job[b].row].count
          /\ \A d \in Evenings \ {job[b].row} : Told(d)' = Told(d)
      BY <2>1, AcceptStep
    <2>4. QED
      BY <2>1, <2>2, <2>3, Shows
  <1>10. ASSUME NEW b \in Bots, LoseAnswer(b)
         PROVE  PeakInv' /\ (BoardSame \/ \E d \in Evenings : Board!Show(d))
    <2>1. /\ job' = [job EXCEPT ![b] = [job[b] EXCEPT !.pc = "refused"]]
          /\ UNCHANGED <<now, peaks, samples>>
      BY <1>10 DEF LoseAnswer, Goes
    <2>2. CASE /\ job[b].pc = "claimed" /\ posts' = Removed(job[b].row, job[b].previous)
               /\ UNCHANGED untracked
      <3>1. job[b].row \in Evenings
        BY <2>2, JobAtWork DEF PeakInv, Posting
      <3>2. job[b].previous \in 0..Len(posts[job[b].row])
        BY <2>2, <3>1 DEF PeakInv, JobFits, PostsFit
      <3>3. BoardSame
        BY <2>1, <2>2, <3>1, <3>2, Removes
      <3>4. QED
        BY <2>1, <2>2, <3>3, DeleteStep
    <2>3. CASE /\ job[b].pc = "deleted" /\ Accepted(job[b].row, job[b].count)
               /\ untracked' = [untracked EXCEPT ![job[b].row] = @ + 1]
      <3>1. job[b].row \in Evenings
        BY <2>3, JobAtWork DEF PeakInv, Posting
      <3>2. /\ PeakInv' /\ Told(job[b].row)' = peaks[job[b].row].count
            /\ Told(job[b].row) <= peaks[job[b].row].count
            /\ \A d \in Evenings \ {job[b].row} : Told(d)' = Told(d)
        BY <2>1, <2>3, AcceptStep
      <3>3. QED
        BY <2>1, <3>1, <3>2, Shows
    <2>4. QED
      BY <1>10, <2>2, <2>3 DEF LoseAnswer
  <1>11. ASSUME NEW b \in Bots, Postpone(b) PROVE PeakInv' /\ BoardSame
    <2>1. posts' = posts /\ peaks' = [peaks EXCEPT ![job[b].row].wait = 2 - (job[b].age - job[b].begun)]
      BY <1>11 DEF Postpone
    <2>2. \A d \in Evenings : peaks[d] \in PeakRow
      BY DEF PeakInv, PeakTypes
    <2>3. \A d \in Evenings : peaks'[d].count = peaks[d].count
      BY <2>1, <2>2 DEF PeakInv, PeakTypes, PeakRow
    <2>4. QED
      BY <1>11, <2>1, <2>3, SamePosts, PostponeStep DEF Counts, Counted
  <1>12. ASSUME NEW b \in Bots, Record(b) PROVE PeakInv' /\ BoardSame
    <2>1. posts' = posts
      BY <1>12 DEF Record
    <2>2. PeakInv' /\ \A d \in Evenings : peaks'[d].count = peaks[d].count
      BY <1>12, RecordStep
    <2>3. QED
      BY <2>1, <2>2, SamePosts DEF Counts, Counted
  <1>13. ASSUME NEW d \in Evenings, Moderate(d) PROVE PeakInv' /\ BoardSame
    <2>1. PICK n \in Up(d) : posts' = Removed(d, n)
      BY <1>13 DEF Moderate
    <2>2. n \in 0..Len(posts[d]) /\ peaks' = peaks
      BY <1>13, <2>1, UpIsFinite DEF PeakInv, Moderate
    <2>3. QED
      BY <1>13, <2>1, <2>2, Removes, ModerateStep
  <1>14. CASE Next
    BY <1>3, <1>4, <1>5, <1>6, <1>7, <1>8, <1>9, <1>10, <1>11, <1>12, <1>13, <1>14 DEF Next, Works
  <1>15. QED
    BY <1>2, <1>14

LEMMA PeakAlways == Spec => []PeakInv
  <1>1. PeakInv /\ [Next]_vars => PeakInv'
    BY PeakStep
  <1>2. QED
    BY PeakInitInv, <1>1, PTL DEF Spec

(***************************************************************************)
(* The recorded peak of an evening is the best sample that was committed   *)
(* for it, whatever the processes' ticks overlapped.                       *)
(***************************************************************************)
THEOREM PeakCorrect == Spec => []PeakIsBestSample
  <1>1. ASSUME PeakInv PROVE PeakIsBestSample
    <2>1. ASSUME NEW d \in Evenings
          PROVE  peaks[d].count = Max({-1} \cup {s[2] : s \in {s \in samples : s[1] = d}})
      <3>1. Sampled(d) \in SUBSET Int
        <4>1. \A s \in samples : s[2] \in Int
          BY <1>1 DEF PeakInv, PeakTypes
        <4>2. QED
          BY <4>1 DEF Sampled
      <3>2. Max(Sampled(d)) = peaks[d].count
        BY <1>1, <3>1, MaxIs DEF PeakInv, BestFits
      <3>3. QED
        BY <3>2 DEF Sampled
    <2>2. QED
      BY <2>1 DEF PeakIsBestSample
  <1>2. QED
    BY <1>1, PeakAlways, PTL

(***************************************************************************)
(* No evening has two posts up, except for those that were lost between    *)
(* Discord's acceptance and the commit.                                    *)
(***************************************************************************)
THEOREM PostsCorrect == Spec => []OnePostUp
  <1>1. ASSUME PeakInv PROVE OnePostUp
    <2>1. ASSUME NEW d \in Evenings PROVE Cardinality(Up(d)) <= 1 + untracked[d]
      <3>1. PICK kept : kept = Tracked(d)
        OBVIOUS
      <3>2. Stray(d) = Up(d) \ {kept}
        BY <3>1 DEF Stray
      <3>3. /\ IsFiniteSet(Stray(d)) /\ Cardinality(Stray(d)) \in Nat
            /\ Cardinality(Stray(d)) <= untracked[d] /\ untracked[d] \in Nat
        BY <1>1, UpIsFinite DEF PeakInv, PostsFit, PeakTypes
      <3>4. /\ IsFiniteSet(Stray(d) \cup {kept})
            /\ Cardinality(Stray(d) \cup {kept}) = Cardinality(Stray(d)) + 1
        BY <3>2, <3>3, FS_AddElement
      <3>5. Up(d) \subseteq Stray(d) \cup {kept}
        BY <3>2
      <3>6. Cardinality(Up(d)) <= Cardinality(Stray(d)) + 1 /\ Cardinality(Up(d)) \in Nat
        BY <3>4, <3>5, FS_Subset, FS_CardinalityType
      <3>7. QED
        BY <3>3, <3>6
    <2>2. QED
      BY <2>1 DEF OnePostUp
  <1>2. QED
    BY <1>1, PeakAlways, PTL

(***************************************************************************)
(* The safety of ImplementsBoard: the channel is only ever told the peak   *)
(* as it stands, and peaks only rise.  That every peak comes to be told is *)
(* liveness, which the run peak checks.                                    *)
(***************************************************************************)
THEOREM BoardImplemented == Spec => Board!Init /\ [][Board!Next]_(Board!boardVars)
  <1>1. Init => Board!Init
    <2> SUFFICES ASSUME Init PROVE Board!Init
      OBVIOUS
    <2>1. ASSUME NEW d \in Evenings PROVE peaks[d].count = -1 /\ Told(d) = -1
      <3>1. peaks[d].count = -1 /\ posts[d] = <<>>
        BY DEF Init
      <3>2. Counts(d) = {-1}
        BY <3>1 DEF Counts
      <3>3. Max({-1}) = -1
        BY MaxIs
      <3>4. QED
        BY <3>1, <3>2, <3>3 DEF Told, Counts
    <2>2. QED
      BY <2>1 DEF Board!Init
  <1>2. ASSUME PeakInv, [Next]_vars PROVE [Board!Next]_(Board!boardVars)
    <2>1. BoardSame \/ \E d \in Evenings : Board!Raise(d) \/ Board!Show(d)
      BY <1>2, PeakStep
    <2>2. QED
      BY <2>1, SameBoard DEF Board!Next
  <1>3. QED
    BY <1>1, <1>2, PeakAlways, PTL DEF Spec
=============================================================================
