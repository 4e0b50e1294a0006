------------------------------ MODULE StagesProofs ------------------------------
(*****************************************************************************)
(* Theorems about Stages: for every pool of workers, every chain the loader  *)
(* may let through, every record that fits a scratch buffer and any number   *)
(* of status updates.                                                        *)
(*****************************************************************************)
EXTENDS Stages, FiniteSetTheorems, SequenceTheorems, TLAPS

-------------------------------------------------------------------------------
\* Where the record of a worker can be.

\* In a stage, or between two; in a sink nothing is flagged.
PlainJob(j) ==
  /\ j = [step |-> j.step, record |-> j.record, at |-> j.at, len |-> j.len,
          flagged |-> j.flagged]
  /\ j.step \in {"process", "count", "route"}
  /\ j.at \in 1 .. Len(chain) /\ j.len \in Nat /\ j.flagged \in BOOLEAN
  /\ j.step = "process" => j.at = 1
  /\ j.step # "process" => chain[j.at].kind # "ring_output"
  /\ j.step # "process" /\ chain[j.at].kind \in Sink => ~j.flagged

\* In a ring_output stage, which holds the record it made.
OutJob(j) ==
  /\ j = [step |-> j.step, record |-> j.record, at |-> j.at, len |-> j.len,
          flagged |-> j.flagged, blob |-> j.blob]
  /\ j.flagged = FALSE
  /\ j.step \in {"enqueue", "enqueued", "count", "route"}
  /\ j.at \in 1 .. Len(chain) /\ j.len \in Nat
  /\ chain[j.at].kind = "ring_output"

RefusedJob(j) ==
  /\ j = [step |-> "refused", at |-> j.at]
  /\ j.at \in 1 .. Len(chain) /\ chain[j.at].kind = "ring_output"

JobFits(j) == j = Idle \/ PlainJob(j) \/ OutJob(j) \/ RefusedJob(j)

SentIsSeq == sent \in Seq({sent[k] : k \in 1 .. Len(sent)})

StagesType ==
  /\ chain \in Chain
  /\ DOMAIN job = Worker /\ \A w \in Worker : JobFits(job[w])
  /\ totals \in [Total -> Nat]
  /\ counts \in [1 .. Len(chain) -> [Field -> Nat]]
  /\ moved \in BOOLEAN
  /\ SentIsSeq

\* A typed chain, which ends in its only sink.
LEMMA ChainEndsInSink ==
  ASSUME chain \in Chain
  PROVE  /\ Len(chain) \in Nat \ {0}
         /\ \A i \in 1 .. Len(chain) : /\ chain[i].kind \in StageKind
                                       /\ chain[i].kind \in Sink <=> i = Len(chain)
BY ChainAssumption

\* The stage that a worker calls next is one of the chain's, and the worker has a
\* record for it.
LEMMA ReadyCalls ==
  ASSUME StagesType, NEW w \in Worker, Ready(w)
  PROVE  /\ PlainJob(job[w])
         /\ At(w) \in 1 .. Len(chain)
         /\ job[w].step = "process" \/ chain[job[w].at].kind \notin Sink
         /\ job[w].step = "process" => At(w) = 1
         /\ job[w].step # "process" => job[w].step = "route" /\ At(w) = job[w].at + 1
<1>1. job[w].step = "process" \/ (job[w].step = "route" /\ chain[job[w].at].kind \notin Sink)
  BY DEF Ready, Passes
<1>2. JobFits(job[w])
  BY DEF StagesType
<1>3. job[w] # Idle /\ ~OutJob(job[w]) /\ ~RefusedJob(job[w])
  BY <1>1 DEF OutJob, RefusedJob, Idle, Sink
<1>4. PlainJob(job[w])
  BY <1>2, <1>3 DEF JobFits
<1>5. At(w) \in 1 .. Len(chain)
  BY <1>1, <1>4, ChainEndsInSink DEF StagesType, PlainJob, At
<1> QED
  BY <1>1, <1>4, <1>5 DEF At, PlainJob

-------------------------------------------------------------------------------
\* What a stage can make of what it is given.

\* Any slice, also of a sequence of anything, is a sequence.
LEMMA SliceIsSeq ==
  ASSUME NEW s, NEW m \in Int, NEW n \in Int
  PROVE  /\ SubSeq(s, m, n) \in Seq({s[i] : i \in m .. n})
         /\ Len(SubSeq(s, m, n)) \in Nat
         /\ Len(SubSeq(s, m, n)) = IF m <= n THEN n - m + 1 ELSE 0
<1> DEFINE S == {s[i] : i \in m .. n}
<1>1. \A i \in m .. n : s[i] \in S
  OBVIOUS
<1> HIDE DEF S
<1>2. SubSeq(s, m, n) \in Seq(S) /\ Len(SubSeq(s, m, n)) = IF m <= n THEN n - m + 1 ELSE 0
  BY <1>1, SubSeqProperties, Zenon
<1>3. Len(SubSeq(s, m, n)) \in Nat
  BY <1>2
<1> QED
  BY <1>2, <1>3 DEF S

LEMMA WholeLength ==
  ASSUME NEW buf, NEW len \in Nat
  PROVE  Len(Whole(buf, len)) = len
BY SliceIsSeq DEF Whole

\* As many zeros as a field is short, none if it is not.
LEMMA ZerosAreSeq ==
  ASSUME NEW k \in Int
  PROVE  /\ [i \in 1 .. k |-> 0] \in Seq({0})
         /\ Len([i \in 1 .. k |-> 0]) = IF k <= 0 THEN 0 ELSE k
<1> DEFINE z == [i \in 1 .. k |-> 0]
           n == IF k <= 0 THEN 0 ELSE k
<1>1. n \in Nat /\ 1 .. n = 1 .. k
  OBVIOUS
<1>2. z \in [1 .. n -> {0}]
  BY <1>1
<1>3. z \in Seq({0})
  BY <1>1, <1>2, SeqDef
<1>4. Len(z) \in Nat /\ DOMAIN z = 1 .. Len(z)
  BY <1>3, LenProperties, Zenon
<1>5. 1 .. Len(z) = 1 .. n
  BY <1>1, <1>4
<1> HIDE DEF z, n
<1>6. Len(z) = n
  <2> PICK a \in Nat : a = Len(z)
    BY <1>4
  <2>1. \A i \in Int : i \in 1 .. a <=> i \in 1 .. n
    BY <1>5
  <2>2. (a \in 1 .. a <=> a <= n /\ 1 <= a) /\ (n \in 1 .. n <=> n <= a /\ 1 <= n)
    BY <1>1, <2>1
  <2> QED
    BY <1>1, <2>2
<1> QED
  BY <1>3, <1>6 DEF z, n

LEMMA WidenedLength ==
  ASSUME NEW T, NEW field \in Seq(T)
  PROVE  /\ Widened(field) \in Seq(T \cup {0})
         /\ Len(Widened(field)) = IF Len(field) <= ValueLen THEN ValueLen ELSE Len(field)
<1>1. Len(field) \in Nat
  BY LenProperties
<1> PICK k \in Int : k = ValueLen - Len(field)
  BY <1>1 DEF ValueLen
<1> DEFINE z == [i \in 1 .. k |-> 0]
<1>2. z \in Seq({0}) /\ Len(z) = IF k <= 0 THEN 0 ELSE k
  BY ZerosAreSeq
<1> HIDE DEF z
<1>3. z \in Seq(T \cup {0}) /\ field \in Seq(T \cup {0})
  BY <1>2, SeqMonotonic, Zenon
<1>4. z \o field \in Seq(T \cup {0}) /\ Len(z \o field) = Len(z) + Len(field)
  BY <1>3, ConcatProperties, Zenon
<1>5. Widened(field) = z \o field
  BY DEF Widened, z
<1> QED
  BY <1>1, <1>2, <1>4, <1>5 DEF ValueLen

\* A function of 1 .. n is a sequence of n.
LEMMA FunIsSeq ==
  ASSUME NEW n \in Nat, NEW S, NEW f \in [1 .. n -> S]
  PROVE  f \in Seq(S) /\ Len(f) = n
<1>1. f \in Seq(S)
  BY SeqDef
<1>2. Len(f) \in Nat /\ 1 .. Len(f) = 1 .. n
  BY <1>1, LenProperties
<1> PICK a \in Nat : a = Len(f)
  BY <1>2
<1>3. \A i \in Int : i \in 1 .. a <=> i \in 1 .. n
  BY <1>2
<1>4. (a \in 1 .. a <=> a <= n /\ 1 <= a) /\ (n \in 1 .. n <=> n <= a /\ 1 <= n)
  BY <1>3
<1>5. a = n
  BY <1>4
<1> QED
  BY <1>1, <1>5

\* A field has as many cells as it was asked for, wherever they are.
LEMMA FieldIsSeq ==
  ASSUME NEW buf, NEW from, NEW n \in Nat, NEW f \in FieldsAt(buf, from, n)
  PROVE  f \in Seq({f[i] : i \in 1 .. n}) /\ Len(f) = n
<1>1. PICK stray \in [1 .. n -> Stray] :
        f = [i \in 1 .. n |-> IF from + i <= Cap THEN buf[from + i] ELSE stray[i]]
  BY DEF FieldsAt
<1>2. f \in [1 .. n -> {f[i] : i \in 1 .. n}]
  BY <1>1
<1> QED
  BY <1>2, FunIsSeq, Zenon

\* A field of a record keeps its length or is widened.
LEMMA ExtractLength ==
  ASSUME NEW st, st.offset \in Nat, st.width \in Nat, NEW buf, NEW len \in Nat,
         NEW x \in Extract(st, buf, len)
  PROVE  Len(x.out) \in Nat /\ x.flagged \in BOOLEAN
<1>1. CASE x = Result(TRUE, Whole(buf, len))
  BY <1>1, WholeLength DEF Result
<1>2. CASE \E field \in FieldsAt(buf, HdrLen + st.offset, st.width) : x = Cutout(st, field)
  <2> PICK field \in FieldsAt(buf, HdrLen + st.offset, st.width) : x = Cutout(st, field)
    BY <1>2
  <2>1. Len(field) \in Nat /\ field \in Seq({field[i] : i \in 1 .. st.width})
    BY FieldIsSeq
  <2> PICK T : field \in Seq(T)
    BY <2>1
  <2>2. Len(Widened(field)) \in Nat
    BY <2>1, WidenedLength DEF ValueLen
  <2>3. CASE x = Result(FALSE, Widened(field))
    BY <2>2, <2>3 DEF Result
  <2>4. CASE x = Result(FALSE, field)
    BY <2>1, <2>4 DEF Result
  <2> QED
    BY <2>3, <2>4 DEF Cutout
<1> QED
  BY <1>1, <1>2 DEF Extract

\* What is handed on is a sequence, a sink flags nothing, and ring_output does not
\* take part (stage.h's contract of process()).
LEMMA StageMakes ==
  ASSUME chain \in Chain, NEW i \in 1 .. Len(chain), NEW buf, NEW len \in Nat,
         NEW r \in Outcomes(chain[i], buf, len) \ {Dropped}
  PROVE  /\ Len(r.out) \in Nat /\ r.flagged \in BOOLEAN
         /\ chain[i].kind # "ring_output"
         /\ chain[i].kind \in Sink => r.flagged = FALSE
<1>1. /\ chain[i].kind \in StageKind
      /\ chain[i].kind = "validate" => chain[i].require_magic \in BOOLEAN
      /\ chain[i].kind = "extract" => chain[i].offset \in Nat /\ chain[i].width \in Nat
  BY ChainAssumption
<1>2. Len(Whole(buf, len)) \in Nat
  BY WholeLength
<1>3. CASE chain[i].kind = "validate"
  <2>1. r = Validate(chain[i], buf, len)
    BY <1>3 DEF Outcomes
  <2>2. r = Result(chain[i].require_magic /\ HdrMagic(buf) # Magic, Whole(buf, len))
    BY <2>1 DEF Validate
  <2> QED
    BY <1>1, <1>2, <1>3, <2>2 DEF Result, Sink
<1>4. CASE chain[i].kind = "extract"
  <2>1. r \in Extract(chain[i], buf, len)
    BY <1>4 DEF Outcomes
  <2> QED
    BY <1>1, <1>4, <2>1, ExtractLength DEF Sink
<1>5. CASE chain[i].kind = "byte_match"
  <2>1. r = ByteMatch(chain[i], buf, len)
    BY <1>5 DEF Outcomes
  <2> PICK b \in BOOLEAN :
        b = \E k \in 1 .. Len(chain[i].magic) :
              chain[i].mask[k] /\ buf[chain[i].offset + k] # chain[i].magic[k]
    OBVIOUS
  <2>2. r = Result(b, Whole(buf, len))
    BY <2>1 DEF ByteMatch
  <2> QED
    BY <1>2, <1>5, <2>2 DEF Result, Sink
<1>6. CASE chain[i].kind = "convert"
  <2>1. r = Convert(chain[i], buf, len)
    BY <1>6 DEF Outcomes
  <2> PICK v : r = Result(FALSE, Double(v))
    BY <2>1 DEF Convert
  <2>2. Len(Double(v)) \in Nat
    <3>1. \A k \in 1 .. ValueLen : (IF k = 1 THEN v ELSE 0) \in {v, 0}
      OBVIOUS
    <3>2. Double(v) \in Seq({v, 0})
      BY <3>1, SeqDef DEF Double, ValueLen
    <3> QED
      BY <3>2, LenProperties
  <2> QED
    BY <1>6, <2>2 DEF Result, Sink
<1>7. CASE chain[i].kind \in Sink
  <2>1. chain[i].kind # "ring_output" /\ r = Consumed
    BY <1>7 DEF Sink, Outcomes, NullSink, DumpBinary, DumpText, ForwardUdp
  <2>2. Len(<<>>) = 0
    OBVIOUS
  <2> QED
    BY <2>1, <2>2 DEF Consumed, Result
<1> QED
  BY <1>1, <1>3, <1>4, <1>5, <1>6, <1>7 DEF StageKind

-------------------------------------------------------------------------------
\* How many workers are between two increments, and how a step changes that.

Stands(j, i, steps) == j.step \in steps /\ j.at = i
Held(jobs, i, steps) == Cardinality({v \in Worker : Stands(jobs[v], i, steps)})
Busy(jobs) == Cardinality({v \in Worker : jobs[v] # Idle})

\* Two sets of workers that differ in one at most.
LEMMA OneApart ==
  ASSUME NEW S \in SUBSET Worker, NEW T \in SUBSET Worker, NEW w \in Worker,
         \A v \in Worker \ {w} : v \in S <=> v \in T
  PROVE  /\ Cardinality(S) \in Nat
         /\ Cardinality(T) = Cardinality(S) + (IF w \in T THEN 1 ELSE 0) - (IF w \in S THEN 1 ELSE 0)
<1>1. IsFiniteSet(S) /\ IsFiniteSet(T)
  BY StagesAssumption, FS_Subset
<1>2. S \ {w} = T \ {w}
  OBVIOUS
<1>3. /\ Cardinality(S) \in Nat /\ Cardinality(T) \in Nat
      /\ Cardinality(S \ {w}) = IF w \in S THEN Cardinality(S) - 1 ELSE Cardinality(S)
      /\ Cardinality(T \ {w}) = IF w \in T THEN Cardinality(T) - 1 ELSE Cardinality(T)
  BY <1>1, FS_CardinalityType, FS_RemoveElement
<1>4. Cardinality(S \ {w}) = Cardinality(T \ {w})
  BY <1>2
<1> QED
  BY <1>3, <1>4

-------------------------------------------------------------------------------
\* What the counters say of each other and of where the workers are.

CountingSink == {"null_sink", "dump_binary", "ring_output"}

StageStory(i) ==
  /\ chain[i].kind = "byte_match" =>
       counts[i]["checked"] =
         counts[i]["matched"] + counts[i]["missed"] + Held(job, i, {"count"})
  /\ chain[i].kind = "validate" =>
       counts[i]["missed"] + Held(job, i, {"count"}) <= counts[i]["checked"]
  /\ chain[i].kind \in CountingSink =>
       counts[i]["checked"] =
         totals["records_forwarded"] + Held(job, i, {"count", "route"})
  /\ chain[i].kind = "ring_output" =>
       /\ Len(sent) = counts[i]["checked"] + Held(job, i, {"enqueued"})
       /\ counts[i]["missed"] <= totals["records_dropped"] + Held(job, i, {"refused"})

Story ==
  /\ \A i \in 1 .. Len(chain) : StageStory(i)
  /\ totals["records_in"] =
       totals["records_dropped"] + totals["records_forwarded"] + Busy(job)

StagesInv == StagesType /\ Story

\* The counts of the places that the story names, after one worker has moved.
Moves(w) ==
  /\ DOMAIN job' = Worker /\ \A v \in Worker \ {w} : job'[v] = job[v]
  /\ chain' = chain
  /\ JobFits(job'[w])

LEMMA MovesCount ==
  ASSUME NEW w \in Worker, Moves(w), NEW i, NEW steps
  PROVE  /\ Held(job, i, steps) \in Nat
         /\ (Stands(job'[w], i, steps) <=> Stands(job[w], i, steps)) =>
              Held(job', i, steps) = Held(job, i, steps)
         /\ Stands(job'[w], i, steps) /\ ~Stands(job[w], i, steps) =>
              Held(job', i, steps) = Held(job, i, steps) + 1
         /\ ~Stands(job'[w], i, steps) /\ Stands(job[w], i, steps) =>
              Held(job', i, steps) = Held(job, i, steps) - 1
<1> DEFINE S == {v \in Worker : Stands(job[v], i, steps)}
           T == {v \in Worker : Stands(job'[v], i, steps)}
<1>1. S \in SUBSET Worker /\ T \in SUBSET Worker /\ \A v \in Worker \ {w} : v \in S <=> v \in T
  BY DEF Moves
<1>2. (w \in T <=> Stands(job'[w], i, steps)) /\ (w \in S <=> Stands(job[w], i, steps))
  OBVIOUS
<1> HIDE DEF S, T
<1>3. /\ Cardinality(S) \in Nat
      /\ Cardinality(T) = Cardinality(S) + (IF w \in T THEN 1 ELSE 0) - (IF w \in S THEN 1 ELSE 0)
  BY <1>1, OneApart
<1>4. Held(job, i, steps) = Cardinality(S) /\ Held(job', i, steps) = Cardinality(T)
  BY DEF Held, S, T
<1> QED
  BY <1>2, <1>3, <1>4

LEMMA MovesBusy ==
  ASSUME NEW w \in Worker, Moves(w)
  PROVE  /\ Busy(job) \in Nat
         /\ (job'[w] = Idle <=> job[w] = Idle) => Busy(job') = Busy(job)
         /\ job'[w] # Idle /\ job[w] = Idle => Busy(job') = Busy(job) + 1
         /\ job'[w] = Idle /\ job[w] # Idle => Busy(job') = Busy(job) - 1
<1> DEFINE S == {v \in Worker : job[v] # Idle}
           T == {v \in Worker : job'[v] # Idle}
<1>1. S \in SUBSET Worker /\ T \in SUBSET Worker /\ \A v \in Worker \ {w} : v \in S <=> v \in T
  BY DEF Moves
<1>2. (w \in T <=> job'[w] # Idle) /\ (w \in S <=> job[w] # Idle)
  OBVIOUS
<1> HIDE DEF S, T
<1>3. /\ Cardinality(S) \in Nat
      /\ Cardinality(T) = Cardinality(S) + (IF w \in T THEN 1 ELSE 0) - (IF w \in S THEN 1 ELSE 0)
  BY <1>1, OneApart
<1>4. Busy(job) = Cardinality(S) /\ Busy(job') = Cardinality(T)
  BY DEF Busy, S, T
<1> QED
  BY <1>2, <1>3, <1>4

LEMMA MovesFit ==
  ASSUME StagesType, NEW w \in Worker, Moves(w)
  PROVE  /\ DOMAIN job' = Worker
         /\ (\A v \in Worker : JobFits(job[v]))'
<1>1. ASSUME NEW v \in Worker PROVE JobFits(job[v])'
  <2>1. JobFits(job'[v])
    BY DEF StagesType, Moves
  <2> QED
    BY <2>1 DEF Moves, JobFits, PlainJob, OutJob, RefusedJob
<1> QED
  BY <1>1 DEF StagesType, Moves

Places == {{"count"}, {"count", "route"}, {"enqueued"}, {"refused"}}

LEMMA Unmoved ==
  ASSUME NEW w \in Worker, Moves(w), NEW i,
         \A steps \in Places : Stands(job'[w], i, steps) <=> Stands(job[w], i, steps)
  PROVE  \A steps \in Places : /\ Held(job, i, steps) \in Nat
                                /\ Held(job', i, steps) = Held(job, i, steps)
BY MovesCount

\* One more step of the ring: what is sent is a sequence still.
LEMMA SentGrows ==
  ASSUME StagesType, NEW e, sent' = Append(sent, e)
  PROVE  /\ SentIsSeq'
         /\ Len(sent) \in Nat /\ Len(sent') = Len(sent) + 1
<1> DEFINE S == {sent[k] : k \in 1 .. Len(sent)} \cup {e}
<1>1. sent \in Seq(S) /\ e \in S
  BY SeqMonotonic DEF StagesType, SentIsSeq
<1> HIDE DEF S
<1>2. sent' \in Seq(S) /\ Len(sent') = Len(sent) + 1 /\ Len(sent) \in Nat
  BY <1>1, AppendProperties, LenProperties
<1> PICK s \in Seq(S) : s = sent'
  BY <1>2
<1>3. s \in Seq(Range(s))
  BY SeqOfRange, Zenon
<1>4. \A q \in Seq(S) : Range(q) = {q[k] : k \in 1 .. Len(q)}
  BY RangeEquality
<1>5. SentIsSeq'
  BY <1>3, <1>4 DEF SentIsSeq
<1> QED
  BY <1>2, <1>5

LEMMA SentStays ==
  ASSUME StagesType, sent' = sent
  PROVE  SentIsSeq'
<1> PICK s : s = sent
  OBVIOUS
<1>1. sent' = s /\ s \in Seq({s[k] : k \in 1 .. Len(s)})
  BY DEF StagesType, SentIsSeq
<1> QED
  BY <1>1 DEF SentIsSeq

-------------------------------------------------------------------------------
\* Every step of a worker keeps the story.

\* pipeline_run() and process() leave what this process runs alone, and no counter
\* goes back.
Grows ==
  /\ chain' = chain
  /\ totals' \in [Total -> Nat] /\ \A c \in Total : totals[c] <= totals'[c]
  /\ counts' \in [1 .. Len(chain) -> [Field -> Nat]]
  /\ \A i \in 1 .. Len(chain), f \in Field : counts[i][f] <= counts'[i][f]
  /\ moved' = TRUE \/ (moved' = moved /\ totals' = totals)

LEMMA CountersAreNat ==
  ASSUME StagesType
  PROVE  /\ totals \in [Total -> Nat]
         /\ totals["records_in"] \in Nat /\ totals["records_dropped"] \in Nat
         /\ totals["records_forwarded"] \in Nat
         /\ counts \in [1 .. Len(chain) -> [Field -> Nat]]
         /\ \A i \in 1 .. Len(chain) :
              /\ counts[i]["checked"] \in Nat /\ counts[i]["matched"] \in Nat
              /\ counts[i]["missed"] \in Nat /\ counts[i]["bytes"] \in Nat
         /\ \A i \in 1 .. Len(chain), f \in Field : counts[i][f] \in Nat
         /\ chain \in Chain /\ Len(chain) \in Nat \ {0}
         /\ DOMAIN job = Worker
<1>1. /\ totals \in [Total -> Nat] /\ counts \in [1 .. Len(chain) -> [Field -> Nat]]
      /\ chain \in Chain /\ DOMAIN job = Worker
  BY DEF StagesType
<1>2. \A i \in 1 .. Len(chain) : counts[i] \in [Field -> Nat]
  BY <1>1
<1>3. /\ "records_in" \in Total /\ "records_dropped" \in Total /\ "records_forwarded" \in Total
      /\ "checked" \in Field /\ "matched" \in Field /\ "missed" \in Field /\ "bytes" \in Field
  BY DEF Total, Field
<1> QED
  BY <1>1, <1>2, <1>3, ChainEndsInSink

LEMMA TakeKeepsStory ==
  ASSUME StagesInv, NEW w \in Worker, NEW raw \in Raw, TakeRecord(w, raw)
  PROVE  StagesInv' /\ Grows
<1> DEFINE record == <<raw.magic, totals["records_in"] + 1, Len(raw.payload)>> \o raw.payload
<1>1. StagesType /\ Story
  BY DEF StagesInv
<1>2. record \in Seq(Int) /\ Len(record) \in Nat
  <2>1. raw.magic \in Int /\ raw.payload \in Seq(Int) /\ totals["records_in"] + 1 \in Int
    <3>1. raw.magic \in Int /\ raw.payload \in Seq(Int)
      BY StagesAssumption
    <3>2. totals["records_in"] \in Nat
      BY <1>1, CountersAreNat
    <3> QED
      BY <3>1, <3>2
  <2> PICK head \in Seq(Int) : head = <<raw.magic, totals["records_in"] + 1, Len(raw.payload)>>
    <3>1. Len(raw.payload) \in Int
      BY <2>1, LenProperties
    <3>2. \A a, b, c \in Int : <<a, b, c>> \in Seq(Int)
      OBVIOUS
    <3> QED
      BY <2>1, <3>1, <3>2, Zenon
  <2>2. head \o raw.payload \in Seq(Int)
    BY <2>1, ConcatProperties, Zenon
  <2> QED
    BY <2>2, LenProperties
<1> HIDE DEF record
<1>3. /\ job[w] = Idle
      /\ job' = [job EXCEPT ![w] = [step |-> "process", record |-> record, at |-> 1,
                                     len |-> Len(record), flagged |-> FALSE]]
      /\ totals' = [totals EXCEPT !["records_in"] = @ + 1]
      /\ moved' = TRUE
      /\ UNCHANGED <<chain, counts, sent>>
  BY DEF TakeRecord, CountTotal, outVars, record
<1>4. Moves(w) /\ job'[w].step = "process" /\ job'[w] # Idle
  <2>1. 1 \in 1 .. Len(chain)
    BY <1>1, ChainEndsInSink DEF StagesType
  <2>2. PlainJob(job'[w])
    BY <1>1, <1>2, <1>3, <2>1 DEF StagesType, PlainJob
  <2>3. DOMAIN job' = Worker /\ \A v \in Worker \ {w} : job'[v] = job[v]
    BY <1>1, <1>3 DEF StagesType
  <2>4. job'[w].step = "process" /\ Idle.step = "idle"
    BY <1>1, <1>3 DEF StagesType, Idle
  <2> QED
    BY <1>3, <2>2, <2>3, <2>4 DEF Moves, JobFits
<1>5. Grows
  BY <1>1, <1>3, CountersAreNat DEF Grows, Total
<1>6. StagesType'
  <2>1. DOMAIN job' = Worker /\ (\A v \in Worker : JobFits(job[v]))'
    BY <1>1, <1>4, MovesFit
  <2>2. SentIsSeq'
    BY <1>1, <1>3, SentStays
  <2> QED
    BY <1>1, <1>3, <1>5, <2>1, <2>2 DEF StagesType, Grows
<1>7. ASSUME NEW i \in 1 .. Len(chain) PROVE StageStory(i)'
  <2>1. StageStory(i)
    BY <1>1, <1>7 DEF Story
  <2>2. job[w].step = "idle"
    BY <1>3 DEF Idle
  <2>3. \A steps \in Places : Held(job', i, steps) = Held(job, i, steps)
    <3>1. \A steps \in Places : ~Stands(job'[w], i, steps) /\ ~Stands(job[w], i, steps)
      BY <1>4, <2>2 DEF Stands, Places
    <3> QED
      BY <1>4, <3>1, Unmoved
  <2>4. /\ totals'["records_forwarded"] = totals["records_forwarded"]
        /\ totals'["records_dropped"] = totals["records_dropped"]
    BY <1>1, <1>3, CountersAreNat DEF Total
  <2> QED
    BY <1>3, <2>1, <2>3, <2>4 DEF StageStory, Places
<1>8. totals'["records_in"] = totals'["records_dropped"] + totals'["records_forwarded"] + Busy(job')
  <2>1. /\ totals'["records_in"] = totals["records_in"] + 1
        /\ totals'["records_forwarded"] = totals["records_forwarded"]
        /\ totals'["records_dropped"] = totals["records_dropped"]
    BY <1>1, <1>3, CountersAreNat DEF Total
  <2>2. Busy(job) \in Nat /\ Busy(job') = Busy(job) + 1
    BY <1>3, <1>4, MovesBusy
  <2> QED
    BY <1>1, <2>1, <2>2, CountersAreNat DEF Story
<1> QED
  BY <1>3, <1>5, <1>6, <1>7, <1>8 DEF StagesInv, Story

\* A record that is between two stages counts nowhere in the story, and one that is
\* in no sink counts nowhere in a sink's.
LEMMA BetweenStages ==
  ASSUME StagesType, NEW w \in Worker, job[w].step \in {"process", "route"},
         job[w].step = "route" => chain[job[w].at].kind \notin Sink,
         NEW i \in 1 .. Len(chain)
  PROVE  /\ ~Stands(job[w], i, {"count"}) /\ ~Stands(job[w], i, {"enqueued"})
         /\ ~Stands(job[w], i, {"refused"})
         /\ chain[i].kind \in Sink => ~Stands(job[w], i, {"count", "route"})
BY DEF Stands

\* A step that ends a record's walk.
LEMMA FinishKeepsType ==
  ASSUME StagesInv, NEW w \in Worker, NEW c \in {"records_dropped", "records_forwarded"},
         job[w] # Idle, Finish(w, c), UNCHANGED <<chain, counts, sent>>
  PROVE  /\ StagesType' /\ Grows /\ Moves(w) /\ job'[w] = Idle
         /\ totals' = [totals EXCEPT ![c] = @ + 1]
         /\ totals'["records_in"] =
              totals'["records_dropped"] + totals'["records_forwarded"] + Busy(job')
<1>1. StagesType /\ Story
  BY DEF StagesInv
<1>2. /\ job' = [job EXCEPT ![w] = Idle]
      /\ totals' = [totals EXCEPT ![c] = @ + 1]
      /\ moved' = TRUE
      /\ UNCHANGED <<chain, counts, sent>>
  BY DEF Finish, CountTotal
<1>3. Moves(w) /\ job'[w] = Idle
  BY <1>1, <1>2 DEF StagesType, Moves, JobFits
<1>4. Grows
  BY <1>1, <1>2, CountersAreNat DEF Grows, Total
<1>5. StagesType'
  <2>1. DOMAIN job' = Worker /\ (\A v \in Worker : JobFits(job[v]))'
    BY <1>1, <1>3, MovesFit
  <2>2. SentIsSeq'
    BY <1>1, <1>2, SentStays
  <2> QED
    BY <1>1, <1>2, <1>4, <2>1, <2>2 DEF StagesType, Grows
<1>6. totals'["records_in"] = totals'["records_dropped"] + totals'["records_forwarded"] + Busy(job')
  <2>1. /\ totals'["records_in"] = totals["records_in"]
        /\ totals'["records_dropped"] + totals'["records_forwarded"] =
             totals["records_dropped"] + totals["records_forwarded"] + 1
    BY <1>1, <1>2, CountersAreNat DEF Total
  <2>2. Busy(job) \in Nat /\ Busy(job') = Busy(job) - 1
    BY <1>3, MovesBusy
  <2> QED
    BY <1>1, <1>4, <2>1, <2>2, CountersAreNat DEF Story, Grows, Total
<1> QED
  BY <1>2, <1>3, <1>4, <1>5, <1>6

\* A record that is dropped outside a sink.
LEMMA DropKeepsStory ==
  ASSUME StagesInv, NEW w \in Worker, job[w].step \in {"process", "route"},
         job[w].step = "route" => chain[job[w].at].kind \notin Sink,
         Finish(w, "records_dropped"), UNCHANGED <<chain, counts, sent>>
  PROVE  StagesInv' /\ Grows
<1>1. StagesType /\ Story
  BY DEF StagesInv
<1>2. job[w] # Idle
  BY DEF Idle
<1>3. /\ StagesType' /\ Grows /\ Moves(w) /\ job'[w] = Idle
      /\ totals' = [totals EXCEPT !["records_dropped"] = @ + 1]
      /\ totals'["records_in"] =
           totals'["records_dropped"] + totals'["records_forwarded"] + Busy(job')
  BY <1>2, FinishKeepsType
<1>4. ASSUME NEW i \in 1 .. Len(chain) PROVE StageStory(i)'
  <2>1. StageStory(i)
    BY <1>1, <1>4 DEF Story
  <2>2. /\ ~Stands(job[w], i, {"count"}) /\ ~Stands(job[w], i, {"enqueued"})
        /\ ~Stands(job[w], i, {"refused"})
        /\ chain[i].kind \in Sink => ~Stands(job[w], i, {"count", "route"})
    BY <1>1, BetweenStages
  <2>3. \A steps \in Places : ~Stands(job'[w], i, steps)
    BY <1>3 DEF Stands, Places, Idle
  <2>4. /\ Held(job', i, {"count"}) = Held(job, i, {"count"})
        /\ Held(job', i, {"enqueued"}) = Held(job, i, {"enqueued"})
        /\ Held(job', i, {"refused"}) = Held(job, i, {"refused"})
        /\ chain[i].kind \in Sink => Held(job', i, {"count", "route"}) = Held(job, i, {"count", "route"})
        /\ Held(job, i, {"refused"}) \in Nat
    BY <1>3, <2>2, <2>3, MovesCount DEF Places
  <2>5. /\ totals'["records_forwarded"] = totals["records_forwarded"]
        /\ totals'["records_dropped"] = totals["records_dropped"] + 1
    BY <1>1, <1>3, CountersAreNat DEF Total
  <2> QED
    BY <1>1, <2>1, <2>4, <2>5, CountersAreNat DEF StageStory, CountingSink, Sink
<1> QED
  BY <1>3, <1>4 DEF StagesInv, Story

LEMMA DropRecordKeepsStory ==
  ASSUME StagesInv, NEW w \in Worker, DropRecord(w)
  PROVE  StagesInv' /\ Grows
<1>1. Ready(w) /\ Finish(w, "records_dropped") /\ UNCHANGED <<chain, counts, sent>>
  BY DEF DropRecord, outVars
<1>2. /\ job[w].step \in {"process", "route"}
      /\ job[w].step = "route" => chain[job[w].at].kind \notin Sink
  BY <1>1, ReadyCalls DEF StagesInv
<1> QED
  BY <1>1, <1>2, DropKeepsStory

\* A sink flags nothing, so that what is flagged is dropped outside one.
LEMMA DropFlaggedKeepsStory ==
  ASSUME StagesInv, NEW w \in Worker, DropFlagged(w)
  PROVE  StagesInv' /\ Grows
<1>1. /\ job[w].step = "route" /\ job[w].flagged
      /\ Finish(w, "records_dropped") /\ UNCHANGED <<chain, counts, sent>>
  BY DEF DropFlagged, outVars
<1>2. JobFits(job[w])
  BY DEF StagesInv, StagesType
<1>3. PlainJob(job[w])
  BY <1>1, <1>2 DEF JobFits, OutJob, RefusedJob, Idle
<1>4. chain[job[w].at].kind \notin Sink
  BY <1>1, <1>3 DEF PlainJob
<1> QED
  BY <1>1, <1>4, DropKeepsStory

LEMMA ForwardKeepsStory ==
  ASSUME StagesInv, NEW w \in Worker, ForwardRecord(w)
  PROVE  StagesInv' /\ Grows
<1>1. StagesType /\ Story
  BY DEF StagesInv
<1>2. /\ job[w].step = "route" /\ chain[job[w].at].kind \in Sink
      /\ Finish(w, "records_forwarded") /\ UNCHANGED <<chain, counts, sent>>
  BY DEF ForwardRecord, Passes, outVars
<1>3. job[w] # Idle /\ JobFits(job[w])
  BY <1>1, <1>2 DEF Idle, StagesType
<1>4. job[w].at \in 1 .. Len(chain)
  BY <1>3 DEF JobFits, PlainJob, OutJob, RefusedJob
<1>5. job[w].at = Len(chain)
  BY <1>1, <1>2, <1>4, ChainEndsInSink DEF StagesType
<1>6. /\ StagesType' /\ Grows /\ Moves(w) /\ job'[w] = Idle
      /\ totals' = [totals EXCEPT !["records_forwarded"] = @ + 1]
      /\ totals'["records_in"] =
           totals'["records_dropped"] + totals'["records_forwarded"] + Busy(job')
  BY <1>2, <1>3, FinishKeepsType
<1>7. ASSUME NEW i \in 1 .. Len(chain) PROVE StageStory(i)'
  <2>1. StageStory(i)
    BY <1>1, <1>7 DEF Story
  <2>2. /\ ~Stands(job[w], i, {"count"}) /\ ~Stands(job[w], i, {"enqueued"})
        /\ ~Stands(job[w], i, {"refused"})
        /\ chain[i].kind \in Sink => Stands(job[w], i, {"count", "route"})
    BY <1>1, <1>2, <1>5, ChainEndsInSink DEF Stands, StagesType
  <2>3. \A steps \in Places : ~Stands(job'[w], i, steps)
    BY <1>6 DEF Stands, Places, Idle
  <2>4. /\ Held(job', i, {"count"}) = Held(job, i, {"count"})
        /\ Held(job', i, {"enqueued"}) = Held(job, i, {"enqueued"})
        /\ Held(job', i, {"refused"}) = Held(job, i, {"refused"})
        /\ chain[i].kind \in Sink =>
             Held(job', i, {"count", "route"}) = Held(job, i, {"count", "route"}) - 1
        /\ Held(job, i, {"count", "route"}) \in Nat
    BY <1>6, <2>2, <2>3, MovesCount DEF Places
  <2>5. /\ totals'["records_forwarded"] = totals["records_forwarded"] + 1
        /\ totals'["records_dropped"] = totals["records_dropped"]
    BY <1>1, <1>6, CountersAreNat DEF Total
  <2> QED
    <3>1. chain' = chain /\ counts' = counts /\ sent' = sent
      BY <1>2
    <3>2. totals["records_forwarded"] \in Nat /\ totals["records_dropped"] \in Nat
      BY <1>1, CountersAreNat
    <3>3. ASSUME chain[i].kind \in CountingSink
          PROVE  counts'[i]["checked"] =
                   totals'["records_forwarded"] + Held(job', i, {"count", "route"})
      <4>1. chain[i].kind \in Sink
        BY <3>3 DEF CountingSink, Sink
      <4> QED
        BY <2>1, <2>4, <2>5, <3>1, <3>2, <3>3, <4>1 DEF StageStory
    <3> QED
      BY <2>1, <2>4, <2>5, <3>1, <3>3 DEF StageStory
<1> QED
  BY <1>2, <1>6, <1>7 DEF StagesInv, Story

LEMMA DropRefusedKeepsStory ==
  ASSUME StagesInv, NEW w \in Worker, DropRefused(w)
  PROVE  StagesInv' /\ Grows
<1>1. StagesType /\ Story
  BY DEF StagesInv
<1>2. /\ job[w].step = "refused"
      /\ Finish(w, "records_dropped") /\ UNCHANGED <<chain, counts, sent>>
  BY DEF DropRefused, outVars
<1>3. job[w] # Idle /\ JobFits(job[w])
  BY <1>1, <1>2 DEF Idle, StagesType
<1>4. job[w].at \in 1 .. Len(chain) /\ chain[job[w].at].kind = "ring_output"
  BY <1>2, <1>3 DEF JobFits, PlainJob, OutJob, RefusedJob
<1>5. job[w].at = Len(chain)
  BY <1>1, <1>4, ChainEndsInSink DEF StagesType, Sink
<1>6. /\ StagesType' /\ Grows /\ Moves(w) /\ job'[w] = Idle
      /\ totals' = [totals EXCEPT !["records_dropped"] = @ + 1]
      /\ totals'["records_in"] =
           totals'["records_dropped"] + totals'["records_forwarded"] + Busy(job')
  BY <1>2, <1>3, FinishKeepsType
<1>7. ASSUME NEW i \in 1 .. Len(chain) PROVE StageStory(i)'
  <2>1. StageStory(i)
    BY <1>1, <1>7 DEF Story
  <2>2. /\ ~Stands(job[w], i, {"count"}) /\ ~Stands(job[w], i, {"enqueued"})
        /\ ~Stands(job[w], i, {"count", "route"})
        /\ chain[i].kind \in Sink => Stands(job[w], i, {"refused"})
    BY <1>1, <1>2, <1>5, ChainEndsInSink DEF Stands, StagesType
  <2>3. \A steps \in Places : ~Stands(job'[w], i, steps)
    BY <1>6 DEF Stands, Places, Idle
  <2>4. /\ Held(job', i, {"count"}) = Held(job, i, {"count"})
        /\ Held(job', i, {"enqueued"}) = Held(job, i, {"enqueued"})
        /\ Held(job', i, {"count", "route"}) = Held(job, i, {"count", "route"})
        /\ chain[i].kind \in Sink => Held(job', i, {"refused"}) = Held(job, i, {"refused"}) - 1
        /\ Held(job, i, {"refused"}) \in Nat
    BY <1>6, <2>2, <2>3, MovesCount DEF Places
  <2>5. /\ totals'["records_forwarded"] = totals["records_forwarded"]
        /\ totals'["records_dropped"] = totals["records_dropped"] + 1
    BY <1>1, <1>6, CountersAreNat DEF Total
  <2> QED
    BY SMTT(30), <1>1, <1>2, <2>1, <2>4, <2>5, CountersAreNat DEF StageStory, CountingSink, Sink
<1> QED
  BY <1>2, <1>6, <1>7 DEF StagesInv, Story

\* One counter of one stage is raised, by nothing perhaps.
Raised(i, f, n) ==
  /\ counts' \in [1 .. Len(chain) -> [Field -> Nat]]
  /\ \A k \in 1 .. Len(chain), g \in Field :
       counts'[k][g] = IF k = i /\ g = f THEN counts[k][g] + n ELSE counts[k][g]

LEMMA OneRaised ==
  ASSUME NEW i \in 1 .. Len(chain), NEW f \in Field, NEW n \in Nat,
         counts \in [1 .. Len(chain) -> [Field -> Nat]],
         counts' = [counts EXCEPT ![i][f] = @ + n]
  PROVE  Raised(i, f, n)
<1>1. PICK row : row = [counts[i] EXCEPT ![f] = @ + n]
  OBVIOUS
<1>2. counts[i] \in [Field -> Nat]
  OBVIOUS
<1>3. /\ row \in [Field -> Nat]
      /\ \A g \in Field : row[g] = IF g = f THEN counts[i][g] + n ELSE counts[i][g]
  BY <1>1, <1>2
<1>4. counts' = [counts EXCEPT ![i] = row]
  BY <1>1
<1>5. counts' \in [1 .. Len(chain) -> [Field -> Nat]]
  BY <1>3, <1>4
<1>6. ASSUME NEW k \in 1 .. Len(chain), NEW g \in Field
      PROVE  counts'[k][g] = IF k = i /\ g = f THEN counts[k][g] + n ELSE counts[k][g]
  <2>1. CASE k = i
    BY <1>3, <1>4, <2>1
  <2>2. CASE k # i
    BY <1>4, <2>2
  <2> QED
    BY <2>1, <2>2
<1> QED
  BY <1>5, <1>6 DEF Raised

\* A step that leaves the totals and the ring alone.
LEMMA InsideKeepsType ==
  ASSUME StagesInv, NEW w \in Worker, Moves(w), job[w] # Idle, job'[w] # Idle,
         UNCHANGED <<totals, moved>>, SentIsSeq',
         NEW i, NEW f, NEW n \in Nat, Raised(i, f, n)
  PROVE  /\ StagesType' /\ Grows
         /\ totals'["records_in"] =
              totals'["records_dropped"] + totals'["records_forwarded"] + Busy(job')
<1>1. StagesType /\ Story
  BY DEF StagesInv
<1>2. counts' \in [1 .. Len(chain) -> [Field -> Nat]]
  BY DEF Raised
<1>3. ASSUME NEW k \in 1 .. Len(chain), NEW g \in Field PROVE counts[k][g] <= counts'[k][g]
  BY <1>1, CountersAreNat DEF Raised
<1>4. Grows
  BY <1>1, <1>2, <1>3, CountersAreNat DEF Grows, Moves
<1>5. StagesType'
  <2>1. DOMAIN job' = Worker /\ (\A v \in Worker : JobFits(job[v]))'
    BY <1>1, MovesFit
  <2> QED
    BY <1>1, <1>4, <2>1 DEF StagesType, Grows, Moves
<1>6. Busy(job') = Busy(job)
  BY MovesBusy
<1> QED
  BY <1>1, <1>4, <1>5, <1>6 DEF Story

\* What a call of process() does to the worker's record.
LEMMA ProcessMoves ==
  ASSUME StagesType, NEW w \in Worker, Process(w), NEW i, i = At(w)
  PROVE  /\ i \in 1 .. Len(chain) /\ Moves(w) /\ job'[w] # Idle
         /\ chain[i].kind # "ring_output"
         /\ job'[w].at = i
         /\ job'[w].step = IF Fields(chain[i]) # {} THEN "count" ELSE "route"
<1>1. Ready(w)
  BY DEF Process
<1>2. /\ PlainJob(job[w]) /\ i \in 1 .. Len(chain)
      /\ job[w].step = "process" \/ chain[job[w].at].kind \notin Sink
  BY <1>1, ReadyCalls
<1>3. PICK r \in MayMake(w) \ {Dropped} :
      job' = [job EXCEPT ![w] = [step |-> IF Fields(chain[i]) # {} THEN "count" ELSE "route",
                                 record |-> @.record, at |-> i, flagged |-> r.flagged,
                                 len |-> IF chain[i].kind \in Sink THEN @.len
                                         ELSE Len(r.out)]]
  BY DEF Process
<1> PICK s \in {"count", "route"} : s = IF Fields(chain[i]) # {} THEN "count" ELSE "route"
  OBVIOUS
<1>4. /\ Len(r.out) \in Nat /\ r.flagged \in BOOLEAN
      /\ chain[i].kind # "ring_output"
      /\ chain[i].kind \in Sink => r.flagged = FALSE
  <2> PICK buf : buf = scratch[w][Buffer(i)]
    OBVIOUS
  <2> PICK len \in Nat : len = job[w].len
    BY <1>2 DEF PlainJob
  <2>1. chain \in Chain /\ i \in 1 .. Len(chain)
        /\ r \in Outcomes(chain[i], buf, len) \ {Dropped}
    BY <1>2, <1>3 DEF MayMake, StagesType
  <2> QED
    BY <2>1, StageMakes
<1> PICK b \in BOOLEAN : b = r.flagged
  BY <1>4
<1> PICK l \in Nat : l = IF chain[i].kind \in Sink THEN job[w].len ELSE Len(r.out)
  BY <1>2, <1>4 DEF PlainJob
<1>5. job'[w] = [step |-> s, record |-> job[w].record, at |-> i, len |-> l, flagged |-> b]
  BY <1>3 DEF StagesType
<1> PICK j : j = job'[w]
  OBVIOUS
<1>6. j.step = s /\ j.at = i /\ PlainJob(j)
  <2>1. j.step = s /\ j.at = i /\ j.len = l /\ j.flagged = b /\ j.record = job[w].record
    BY <1>5
  <2> QED
    BY <1>2, <1>4, <1>5, <2>1 DEF PlainJob
<1>7. DOMAIN job' = Worker /\ \A v \in Worker \ {w} : job'[v] = job[v]
  BY <1>3 DEF StagesType
<1>8. chain' = chain
  BY DEF Process
<1>9. j # Idle
  <2>1. Idle.step = "idle"
    BY DEF Idle
  <2> QED
    BY <1>6, <2>1
<1> QED
  BY <1>2, <1>4, <1>6, <1>7, <1>8, <1>9 DEF Moves, JobFits

LEMMA ProcessKeepsStory ==
  ASSUME StagesInv, NEW w \in Worker, Process(w)
  PROVE  StagesInv' /\ Grows
<1>1. StagesType /\ Story
  BY DEF StagesInv
<1> PICK i : i = At(w)
  OBVIOUS
<1>2. /\ i \in 1 .. Len(chain) /\ Moves(w) /\ job'[w] # Idle
      /\ chain[i].kind # "ring_output"
      /\ job'[w].at = i
      /\ job'[w].step = IF Fields(chain[i]) # {} THEN "count" ELSE "route"
  BY <1>1, ProcessMoves
<1>3. /\ job[w].step \in {"process", "route"} /\ job[w] # Idle
      /\ job[w].step = "route" => chain[job[w].at].kind \notin Sink
  <2>1. Ready(w) /\ Idle.step = "idle"
    BY DEF Process, Idle
  <2> QED
    BY <1>1, <2>1, ReadyCalls
<1> PICK n \in Nat : n = IF Fields(chain[i]) # {} THEN 1 ELSE 0
  OBVIOUS
<1>4. /\ UNCHANGED <<chain, totals, moved, sent>>
      /\ \/ counts' = [counts EXCEPT ![i]["checked"] = @ + n]
         \/ counts' = counts /\ n = 0
  BY DEF Process, outVars
<1>5. SentIsSeq' /\ "checked" \in Field
  BY <1>1, <1>4, SentStays DEF Field
<1>6. /\ StagesType' /\ Grows
      /\ Raised(i, "checked", n)
      /\ totals'["records_in"] =
           totals'["records_dropped"] + totals'["records_forwarded"] + Busy(job')
  <2>1. Raised(i, "checked", n)
    <3>1. counts \in [1 .. Len(chain) -> [Field -> Nat]] /\ counts[i] \in [Field -> Nat]
      BY <1>1, <1>2, CountersAreNat
    <3>2. CASE counts' = counts /\ n = 0
      BY <1>1, <3>1, <3>2, CountersAreNat DEF Raised
    <3>3. CASE counts' = [counts EXCEPT ![i]["checked"] = @ + n]
      BY <1>2, <1>5, <3>1, <3>3, OneRaised
    <3> QED
      BY <1>4, <3>2, <3>3
  <2>2. UNCHANGED <<totals, moved>>
    BY <1>4
  <2> QED
    BY <1>1, <1>2, <1>3, <1>5, <2>1, <2>2, InsideKeepsType
<1>7. ASSUME NEW k \in 1 .. Len(chain) PROVE StageStory(k)'
  <2>1. StageStory(k)
    BY <1>1 DEF Story
  <2>2. /\ ~Stands(job[w], k, {"count"}) /\ ~Stands(job[w], k, {"enqueued"})
        /\ ~Stands(job[w], k, {"refused"})
        /\ chain[k].kind \in Sink => ~Stands(job[w], k, {"count", "route"})
    BY <1>1, <1>3, BetweenStages
  <2>3. /\ ~Stands(job'[w], k, {"enqueued"}) /\ ~Stands(job'[w], k, {"refused"})
        /\ Stands(job'[w], k, {"count"}) <=> k = i /\ Fields(chain[i]) # {}
        /\ Stands(job'[w], k, {"count", "route"}) <=> k = i
    BY <1>2 DEF Stands
  <2>4. /\ Held(job', k, {"enqueued"}) = Held(job, k, {"enqueued"})
        /\ Held(job', k, {"refused"}) = Held(job, k, {"refused"})
        /\ k = i /\ n = 1 => Held(job', k, {"count"}) = Held(job, k, {"count"}) + 1
        /\ k # i => Held(job', k, {"count"}) = Held(job, k, {"count"})
        /\ chain[k].kind \in Sink /\ k = i =>
             Held(job', k, {"count", "route"}) = Held(job, k, {"count", "route"}) + 1
        /\ chain[k].kind \in Sink /\ k # i =>
             Held(job', k, {"count", "route"}) = Held(job, k, {"count", "route"})
        /\ Held(job, k, {"count"}) \in Nat /\ Held(job, k, {"count", "route"}) \in Nat
    BY <1>2, <2>2, <2>3, MovesCount
  <2>5. chain[k].kind \in CountingSink \cup {"validate", "byte_match"} => Fields(chain[k]) # {}
    BY DEF CountingSink, Fields, ValidateFields, ByteMatchFields, NullSinkFields,
           DumpBinaryFields, RingOutputFields
  <2>6. /\ counts'[k]["checked"] = IF k = i THEN counts[k]["checked"] + n ELSE counts[k]["checked"]
        /\ counts'[k]["matched"] = counts[k]["matched"]
        /\ counts'[k]["missed"] = counts[k]["missed"]
    BY <1>6 DEF Field, Raised
  <2>7. /\ counts[k]["checked"] \in Nat /\ counts[k]["matched"] \in Nat
        /\ counts[k]["missed"] \in Nat /\ totals["records_forwarded"] \in Nat
    BY <1>1, CountersAreNat
  <2>8. CASE k # i
    BY <1>4, <2>1, <2>4, <2>6, <2>8 DEF StageStory, CountingSink, Sink
  <2>9. CASE k = i
    <3>1. chain'[k].kind = chain[k].kind /\ chain[k].kind # "ring_output"
      BY <1>2, <1>4, <2>9
    <3>2. ASSUME chain[k].kind \in {"byte_match", "validate"}
          PROVE  /\ counts'[k]["checked"] = counts[k]["checked"] + 1
                 /\ Held(job', k, {"count"}) = Held(job, k, {"count"}) + 1
      BY <2>4, <2>5, <2>6, <2>9, <3>2
    <3>3. ASSUME chain[k].kind \in CountingSink
          PROVE  counts'[k]["checked"] =
                   totals'["records_forwarded"] + Held(job', k, {"count", "route"})
      <4>1. chain[k].kind \in Sink /\ counts'[k]["checked"] = counts[k]["checked"] + 1
        BY <2>5, <2>6, <2>9, <3>3 DEF CountingSink, Sink
      <4>2. counts[k]["checked"] = totals["records_forwarded"] + Held(job, k, {"count", "route"})
        BY <2>1, <3>3 DEF StageStory
      <4>3. /\ Held(job', k, {"count", "route"}) = Held(job, k, {"count", "route"}) + 1
            /\ Held(job, k, {"count", "route"}) \in Nat
        BY <2>4, <2>9, <4>1
      <4>4. totals'["records_forwarded"] = totals["records_forwarded"]
        BY <1>4
      <4>5. PICK p \in Nat, h \in Nat :
              p = totals["records_forwarded"] /\ h = Held(job, k, {"count", "route"})
        BY <2>7, <4>3
      <4>6. counts'[k]["checked"] = (p + h) + 1
        BY <4>1, <4>2, <4>5, Zenon
      <4>7. (p + h) + 1 = p + (h + 1)
        OBVIOUS
      <4> QED
        BY <4>3, <4>4, <4>5, <4>6, <4>7, Zenon
    <3>4. ASSUME chain[k].kind = "byte_match"
          PROVE  counts'[k]["checked"] =
                   counts'[k]["matched"] + counts'[k]["missed"] + Held(job', k, {"count"})
      <4>1. counts[k]["checked"] =
              counts[k]["matched"] + counts[k]["missed"] + Held(job, k, {"count"})
        BY <2>1, <3>4 DEF StageStory
      <4>2. /\ Held(job, k, {"count"}) \in Nat
            /\ Held(job', k, {"count"}) = Held(job, k, {"count"}) + 1
            /\ counts'[k]["checked"] = counts[k]["checked"] + 1
        BY <2>4, <3>2, <3>4
      <4>3. counts'[k]["matched"] = counts[k]["matched"] /\ counts'[k]["missed"] = counts[k]["missed"]
        BY <2>6
      <4>4. PICK p \in Nat, q \in Nat, h \in Nat :
              /\ p = counts[k]["matched"] /\ q = counts[k]["missed"]
              /\ h = Held(job, k, {"count"})
        BY <2>7, <4>2
      <4>5. counts'[k]["checked"] = (p + q + h) + 1
        BY <4>1, <4>2, <4>4, Zenon
      <4>6. (p + q + h) + 1 = p + q + (h + 1)
        OBVIOUS
      <4> QED
        BY <4>2, <4>3, <4>4, <4>5, <4>6, Zenon
    <3>5. ASSUME chain[k].kind = "validate"
          PROVE  counts'[k]["missed"] + Held(job', k, {"count"}) <= counts'[k]["checked"]
      <4>1. counts[k]["missed"] + Held(job, k, {"count"}) <= counts[k]["checked"]
        BY <2>1, <3>5 DEF StageStory
      <4>2. Held(job, k, {"count"}) \in Nat
        BY <2>4
      <4> QED
        BY SMTT(30), <2>6, <2>7, <3>2, <3>5, <4>1, <4>2
    <3> QED
      BY <3>1, <3>3, <3>4, <3>5 DEF StageStory
  <2> QED
    BY <2>8, <2>9
<1> QED
  BY <1>4, <1>6, <1>7 DEF StagesInv, Story

LEMMA PlainStep ==
  ASSUME NEW j, NEW k, NEW s,
         j = [step |-> j.step, record |-> j.record, at |-> j.at, len |-> j.len,
              flagged |-> j.flagged],
         k = [j EXCEPT !.step = s]
  PROVE  k = [step |-> s, record |-> j.record, at |-> j.at, len |-> j.len, flagged |-> j.flagged]
OBVIOUS

LEMMA OutStep ==
  ASSUME NEW j, NEW k, NEW s,
         j = [step |-> j.step, record |-> j.record, at |-> j.at, len |-> j.len,
              flagged |-> j.flagged, blob |-> j.blob],
         k = [j EXCEPT !.step = s]
  PROVE  k = [step |-> s, record |-> j.record, at |-> j.at, len |-> j.len, flagged |-> j.flagged,
              blob |-> j.blob]
OBVIOUS

\* A worker in a stage goes to another place in it.
LEMMA StepMoves ==
  ASSUME StagesType, NEW w \in Worker, NEW s, job' = [job EXCEPT ![w].step = s], chain' = chain,
         \/ PlainJob(job[w]) /\ job[w].step = "count" /\ s = "route"
         \/ OutJob(job[w]) /\ s \in {"enqueued", "count", "route"}
  PROVE  /\ Moves(w) /\ job'[w].step = s /\ job'[w].at = job[w].at /\ job'[w] # Idle
         /\ job'[w].record = job[w].record /\ job'[w].len = job[w].len
<1> PICK j : j = job[w]
  OBVIOUS
<1> PICK k : k = job'[w]
  OBVIOUS
<1>1. k = [j EXCEPT !.step = s]
  BY DEF StagesType
<1>2. ASSUME PlainJob(j) /\ j.step = "count" /\ s = "route"
      PROVE  k.step = s /\ k.at = j.at /\ k.record = j.record /\ k.len = j.len /\ JobFits(k)
  <2>1. k = [step |-> s, record |-> j.record, at |-> j.at, len |-> j.len, flagged |-> j.flagged]
    BY <1>1, <1>2, PlainStep DEF PlainJob
  <2>2. k.step = s /\ k.record = j.record /\ k.at = j.at /\ k.len = j.len /\ k.flagged = j.flagged
    BY <2>1
  <2>3. PlainJob(k)
    BY <1>2, <2>1, <2>2 DEF PlainJob
  <2> QED
    BY <2>2, <2>3 DEF JobFits
<1>3. ASSUME OutJob(j) /\ s \in {"enqueued", "count", "route"}
      PROVE  k.step = s /\ k.at = j.at /\ k.record = j.record /\ k.len = j.len /\ JobFits(k)
  <2>1. k = [step |-> s, record |-> j.record, at |-> j.at, len |-> j.len, flagged |-> j.flagged,
             blob |-> j.blob]
    BY <1>1, <1>3, OutStep DEF OutJob
  <2>2. k.step = s /\ k.record = j.record /\ k.at = j.at /\ k.len = j.len
        /\ k.flagged = j.flagged /\ k.blob = j.blob
    BY <2>1
  <2>3. OutJob(k)
    BY <1>3, <2>1, <2>2 DEF OutJob
  <2> QED
    BY <2>2, <2>3 DEF JobFits
<1>4. k.step = s /\ k.at = j.at /\ k.record = j.record /\ k.len = j.len /\ JobFits(k)
  <2>1. \/ PlainJob(j) /\ j.step = "count" /\ s = "route"
        \/ OutJob(j) /\ s \in {"enqueued", "count", "route"}
    OBVIOUS
  <2> QED
    BY <1>2, <1>3, <2>1
<1>5. k # Idle
  <2>1. Idle.step = "idle" /\ s # "idle"
    BY DEF Idle
  <2> QED
    BY <1>4, <2>1
<1>6. DOMAIN job' = Worker /\ \A v \in Worker \ {w} : job'[v] = job[v]
  BY DEF StagesType
<1> QED
  BY <1>4, <1>5, <1>6 DEF Moves

LEMMA CountOutcomeKeepsStory ==
  ASSUME StagesInv, NEW w \in Worker, CountOutcome(w)
  PROVE  StagesInv' /\ Grows
<1>1. StagesType /\ Story
  BY DEF StagesInv
<1> PICK i : i = job[w].at
  OBVIOUS
<1> PICK f : f = SecondField(chain[i], job[w].flagged)
  OBVIOUS
<1>2. /\ job[w].step = "count"
      /\ job' = [job EXCEPT ![w].step = "route"]
      /\ counts' = IF f = "none" THEN counts
                   ELSE [counts EXCEPT ![i][f] = @ + (IF f = "bytes" THEN job[w].len ELSE 1)]
      /\ UNCHANGED <<chain, totals, moved, sent>>
  BY DEF CountOutcome, outVars
<1>3. /\ job[w] # Idle
      /\ PlainJob(job[w]) \/ OutJob(job[w])
  BY <1>1, <1>2 DEF StagesType, JobFits, RefusedJob, Idle
<1>4. i \in 1 .. Len(chain) /\ job[w].len \in Nat
  BY <1>3 DEF PlainJob, OutJob
<1>5. Moves(w) /\ job'[w].step = "route" /\ job'[w].at = i /\ job'[w] # Idle
  BY <1>1, <1>2, <1>3, StepMoves
<1>6. /\ chain[i].kind = "byte_match" => f \in {"matched", "missed"}
      /\ chain[i].kind = "validate" => f \in {"none", "missed"}
      /\ chain[i].kind \notin {"byte_match", "validate"} => f = "bytes"
  BY DEF SecondField
<1> PICK n \in Nat : n = IF f = "none" THEN 0 ELSE IF f = "bytes" THEN job[w].len ELSE 1
  BY <1>4
<1> PICK g \in Field : g = IF f = "none" THEN "missed" ELSE f
  BY <1>6 DEF Field
<1>7. \/ counts' = [counts EXCEPT ![i][g] = @ + n]
      \/ counts' = counts /\ n = 0
  BY <1>2
<1>8. SentIsSeq'
  BY <1>1, <1>2, SentStays
<1>9. /\ StagesType' /\ Grows
      /\ Raised(i, g, n)
      /\ totals'["records_in"] =
           totals'["records_dropped"] + totals'["records_forwarded"] + Busy(job')
  <2>1. Raised(i, g, n)
    <3>1. counts \in [1 .. Len(chain) -> [Field -> Nat]] /\ counts[i] \in [Field -> Nat]
      BY <1>1, <1>4, CountersAreNat
    <3>2. CASE counts' = counts /\ n = 0
      BY <1>1, <3>1, <3>2, CountersAreNat DEF Raised
    <3>3. CASE counts' = [counts EXCEPT ![i][g] = @ + n]
      BY <1>4, <3>1, <3>3, OneRaised
    <3> QED
      BY <1>7, <3>2, <3>3
  <2>2. UNCHANGED <<totals, moved>>
    BY <1>2
  <2> QED
    BY <1>1, <1>3, <1>5, <1>8, <2>1, <2>2, InsideKeepsType
<1>10. ASSUME NEW k \in 1 .. Len(chain) PROVE StageStory(k)'
  <2>1. StageStory(k)
    BY <1>1 DEF Story
  <2>2. /\ Stands(job'[w], k, {"enqueued"}) <=> Stands(job[w], k, {"enqueued"})
        /\ Stands(job'[w], k, {"refused"}) <=> Stands(job[w], k, {"refused"})
        /\ Stands(job'[w], k, {"count", "route"}) <=> Stands(job[w], k, {"count", "route"})
        /\ ~Stands(job'[w], k, {"count"})
        /\ Stands(job[w], k, {"count"}) <=> k = i
    BY <1>2, <1>5 DEF Stands
  <2>3. /\ Held(job', k, {"enqueued"}) = Held(job, k, {"enqueued"})
        /\ Held(job', k, {"refused"}) = Held(job, k, {"refused"})
        /\ Held(job', k, {"count", "route"}) = Held(job, k, {"count", "route"})
        /\ Held(job, k, {"count"}) \in Nat
        /\ k = i => Held(job', k, {"count"}) = Held(job, k, {"count"}) - 1
        /\ k # i => Held(job', k, {"count"}) = Held(job, k, {"count"})
    BY <1>5, <2>2, MovesCount
  <2>4. /\ counts[k]["checked"] \in Nat /\ counts[k]["matched"] \in Nat
        /\ counts[k]["missed"] \in Nat
    BY <1>1, CountersAreNat
  <2>5. /\ counts'[k]["checked"] = counts[k]["checked"]
        /\ counts'[k]["matched"] =
             IF k = i /\ g = "matched" THEN counts[k]["matched"] + n ELSE counts[k]["matched"]
        /\ counts'[k]["missed"] =
             IF k = i /\ g = "missed" THEN counts[k]["missed"] + n ELSE counts[k]["missed"]
    BY <1>6, <1>9 DEF Field, Raised
  <2>6. CASE k # i
    BY <1>2, <2>1, <2>3, <2>5, <2>6 DEF StageStory
  <2>7. CASE k = i
    <3>1. ASSUME chain[k].kind = "byte_match"
          PROVE  counts'[k]["checked"] =
                   counts'[k]["matched"] + counts'[k]["missed"] + Held(job', k, {"count"})
      <4>1. n = 1 /\ (g = "matched" \/ g = "missed")
        BY <1>6, <2>7, <3>1
      <4>2. counts[k]["checked"] =
              counts[k]["matched"] + counts[k]["missed"] + Held(job, k, {"count"})
        BY <2>1, <3>1 DEF StageStory
      <4>3. \/ /\ counts'[k]["matched"] = counts[k]["matched"] + 1
               /\ counts'[k]["missed"] = counts[k]["missed"]
            \/ /\ counts'[k]["matched"] = counts[k]["matched"]
               /\ counts'[k]["missed"] = counts[k]["missed"] + 1
        BY <2>5, <2>7, <4>1
      <4>4. /\ Held(job', k, {"count"}) = Held(job, k, {"count"}) - 1
            /\ Held(job, k, {"count"}) \in Nat
            /\ counts'[k]["checked"] = counts[k]["checked"]
        BY <2>3, <2>5, <2>7
      <4>5. PICK a \in Nat : a = counts[k]["matched"]
        BY <2>4
      <4>6. PICK b \in Nat : b = counts[k]["missed"]
        BY <2>4
      <4>7. PICK h \in Nat : h = Held(job, k, {"count"})
        BY <4>4
      <4>8. counts'[k]["checked"] = a + b + h /\ Held(job', k, {"count"}) = h - 1
        BY <4>2, <4>4, <4>5, <4>6, <4>7
      <4>9. \/ counts'[k]["matched"] = a + 1 /\ counts'[k]["missed"] = b
            \/ counts'[k]["matched"] = a /\ counts'[k]["missed"] = b + 1
        BY <4>3, <4>5, <4>6
      <4>10. CASE counts'[k]["matched"] = a + 1 /\ counts'[k]["missed"] = b
        BY <4>8, <4>10
      <4>11. CASE counts'[k]["matched"] = a /\ counts'[k]["missed"] = b + 1
        BY <4>8, <4>11
      <4> QED
        BY <4>9, <4>10, <4>11
    <3>2. ASSUME chain[k].kind = "validate"
          PROVE  counts'[k]["missed"] + Held(job', k, {"count"}) <= counts'[k]["checked"]
      <4>1. n \in {0, 1} /\ g = "missed"
        BY <1>6, <2>7, <3>2
      <4>2. counts[k]["missed"] + Held(job, k, {"count"}) <= counts[k]["checked"]
        BY <2>1, <3>2 DEF StageStory
      <4>3. counts'[k]["missed"] = counts[k]["missed"] + n
        BY <2>5, <2>7, <4>1
      <4>4. /\ Held(job', k, {"count"}) = Held(job, k, {"count"}) - 1
            /\ Held(job, k, {"count"}) \in Nat
            /\ counts'[k]["checked"] = counts[k]["checked"]
        BY <2>3, <2>5, <2>7
      <4> QED
        BY <2>4, <4>1, <4>2, <4>3, <4>4
    <3>3. chain[k].kind \in CountingSink => counts'[k]["missed"] = counts[k]["missed"]
      BY <1>6, <2>5, <2>7 DEF CountingSink
    <3> QED
      BY <1>2, <2>1, <2>3, <2>5, <3>1, <3>2, <3>3 DEF StageStory, CountingSink
  <2> QED
    BY <2>6, <2>7
<1> QED
  BY <1>2, <1>9, <1>10 DEF StagesInv, Story

-------------------------------------------------------------------------------
\* ring_output's steps.

\* A record in a ring_output stage is at the end of its chain.
LEMMA OutIsLast ==
  ASSUME StagesType, NEW i \in 1 .. Len(chain), chain[i].kind = "ring_output"
  PROVE  i = Len(chain) /\ \A k \in 1 .. Len(chain) : k = i <=> chain[k].kind \in Sink
BY ChainEndsInSink DEF StagesType, Sink

\* The places of a record that enters the stage, or that waits for the ring there.
LEMMA OutsideSinks ==
  ASSUME StagesType, NEW w \in Worker, Ready(w) \/ job[w].step = "enqueue"
  PROVE  /\ job[w] # Idle
         /\ \A i \in 1 .. Len(chain) :
              /\ ~Stands(job[w], i, {"count"}) /\ ~Stands(job[w], i, {"enqueued"})
              /\ ~Stands(job[w], i, {"refused"})
              /\ chain[i].kind \in Sink => ~Stands(job[w], i, {"count", "route"})
<1>1. Idle.step = "idle"
  BY DEF Idle
<1>2. CASE Ready(w)
  <2>1. /\ job[w].step \in {"process", "route"}
        /\ job[w].step = "route" => chain[job[w].at].kind \notin Sink
    BY <1>2, ReadyCalls
  <2> QED
    BY <1>1, <2>1, BetweenStages
<1>3. CASE job[w].step = "enqueue"
  BY <1>1, <1>3 DEF Stands
<1> QED
  BY <1>2, <1>3

LEMMA FrameKeepsStory ==
  ASSUME StagesInv, NEW w \in Worker, FrameRecord(w)
  PROVE  StagesInv' /\ Grows
<1>1. StagesType /\ Story
  BY DEF StagesInv
<1> PICK i : i = At(w)
  OBVIOUS
<1> PICK blob : blob = <<Magic, next_seq, job[w].len>> \o Given(w)
  OBVIOUS
<1>2. /\ Ready(w) /\ chain[i].kind = "ring_output"
      /\ job' = [job EXCEPT ![w] = [step |-> "enqueue", at |-> i, record |-> job[w].record,
                                     len |-> job[w].len, flagged |-> FALSE, blob |-> blob]]
      /\ UNCHANGED <<chain, totals, counts, sent, moved>>
  BY DEF FrameRecord, OutStage
<1>3. i \in 1 .. Len(chain) /\ job[w].len \in Nat
  BY <1>1, <1>2, ReadyCalls DEF PlainJob
<1>4. job'[w] = [step |-> "enqueue", at |-> i, record |-> job[w].record,
                 len |-> job[w].len, flagged |-> FALSE, blob |-> blob]
  BY <1>1, <1>2 DEF StagesType
<1>5. Moves(w) /\ job'[w].step = "enqueue" /\ job'[w] # Idle
  <2> PICK j : j = job'[w]
    OBVIOUS
  <2>1. /\ j.step = "enqueue" /\ j.at = i /\ j.record = job[w].record /\ j.len = job[w].len
        /\ j.flagged = FALSE /\ j.blob = blob
    BY <1>4
  <2>2. OutJob(j)
    BY <1>2, <1>3, <1>4, <2>1 DEF OutJob
  <2>3. DOMAIN job' = Worker /\ \A v \in Worker \ {w} : job'[v] = job[v]
    BY <1>1, <1>2 DEF StagesType
  <2>4. Idle.step = "idle"
    BY DEF Idle
  <2> QED
    BY <1>2, <2>1, <2>2, <2>3, <2>4 DEF Moves, JobFits
<1>6. /\ StagesType' /\ Grows
      /\ totals'["records_in"] =
           totals'["records_dropped"] + totals'["records_forwarded"] + Busy(job')
  <2>1. Raised(i, "checked", 0)
    BY <1>1, <1>2, CountersAreNat DEF Raised
  <2>2. SentIsSeq' /\ job[w] # Idle /\ UNCHANGED <<totals, moved>>
    BY <1>1, <1>2, SentStays, OutsideSinks
  <2> QED
    BY <1>5, <2>1, <2>2, InsideKeepsType
<1>7. ASSUME NEW k \in 1 .. Len(chain) PROVE StageStory(k)'
  <2>1. StageStory(k)
    BY <1>1 DEF Story
  <2>2. \A steps \in Places : ~Stands(job'[w], k, steps)
    BY <1>5 DEF Stands, Places
  <2>3. /\ ~Stands(job[w], k, {"count"}) /\ ~Stands(job[w], k, {"enqueued"})
        /\ ~Stands(job[w], k, {"refused"})
        /\ chain[k].kind \in Sink => ~Stands(job[w], k, {"count", "route"})
    BY <1>1, <1>2, OutsideSinks
  <2>4. /\ Held(job', k, {"count"}) = Held(job, k, {"count"})
        /\ Held(job', k, {"enqueued"}) = Held(job, k, {"enqueued"})
        /\ Held(job', k, {"refused"}) = Held(job, k, {"refused"})
        /\ chain[k].kind \in Sink => Held(job', k, {"count", "route"}) = Held(job, k, {"count", "route"})
    BY <1>5, <2>2, <2>3, MovesCount DEF Places
  <2> QED
    BY <1>2, <2>1, <2>4 DEF StageStory, CountingSink, Sink
<1> QED
  BY <1>2, <1>6, <1>7 DEF StagesInv, Story

LEMMA EnqueueKeepsStory ==
  ASSUME StagesInv, NEW w \in Worker, EnqueueRecord(w)
  PROVE  StagesInv' /\ Grows
<1>1. StagesType /\ Story
  BY DEF StagesInv
<1> PICK i : i = job[w].at
  OBVIOUS
<1>2. /\ job[w].step = "enqueue"
      /\ job' = [job EXCEPT ![w].step = "enqueued"]
      /\ UNCHANGED <<chain, totals, counts, moved>>
  BY DEF EnqueueRecord
<1>3. OutJob(job[w])
  BY <1>1, <1>2 DEF StagesType, JobFits, PlainJob, RefusedJob, Idle
<1>4. i \in 1 .. Len(chain) /\ chain[i].kind = "ring_output"
  BY <1>3 DEF OutJob
<1>5. Moves(w) /\ job'[w].step = "enqueued" /\ job'[w].at = i /\ job'[w] # Idle
  BY <1>1, <1>2, <1>3, StepMoves
<1>6. SentIsSeq' /\ Len(sent) \in Nat /\ Len(sent') = Len(sent) + 1
  <2> PICK e : sent' = Append(sent, e)
    BY DEF EnqueueRecord
  <2> QED
    BY <1>1, SentGrows
<1>7. /\ StagesType' /\ Grows
      /\ totals'["records_in"] =
           totals'["records_dropped"] + totals'["records_forwarded"] + Busy(job')
  <2>1. Raised(i, "checked", 0)
    BY <1>1, <1>2, CountersAreNat DEF Raised
  <2>2. job[w] # Idle /\ UNCHANGED <<totals, moved>>
    BY <1>1, <1>2, OutsideSinks
  <2> QED
    BY <1>5, <1>6, <2>1, <2>2, InsideKeepsType
<1>8. ASSUME NEW k \in 1 .. Len(chain) PROVE StageStory(k)'
  <2>1. StageStory(k)
    BY <1>1 DEF Story
  <2>2. /\ ~Stands(job'[w], k, {"count"}) /\ ~Stands(job'[w], k, {"refused"})
        /\ ~Stands(job'[w], k, {"count", "route"})
        /\ Stands(job'[w], k, {"enqueued"}) <=> k = i
    BY <1>5 DEF Stands
  <2>3. /\ ~Stands(job[w], k, {"count"}) /\ ~Stands(job[w], k, {"enqueued"})
        /\ ~Stands(job[w], k, {"refused"}) /\ ~Stands(job[w], k, {"count", "route"})
    BY <1>2 DEF Stands
  <2>4. /\ Held(job', k, {"count"}) = Held(job, k, {"count"})
        /\ Held(job', k, {"refused"}) = Held(job, k, {"refused"})
        /\ Held(job', k, {"count", "route"}) = Held(job, k, {"count", "route"})
        /\ k = i => Held(job', k, {"enqueued"}) = Held(job, k, {"enqueued"}) + 1
        /\ Held(job, k, {"enqueued"}) \in Nat
    BY <1>5, <2>2, <2>3, MovesCount
  <2>5. chain[k].kind = "ring_output" => k = i
    BY <1>1, <1>4, OutIsLast DEF Sink
  <2>6. counts[k]["checked"] \in Nat
    BY <1>1, CountersAreNat
  <2>7. ASSUME chain[k].kind = "ring_output"
        PROVE  Len(sent') = counts'[k]["checked"] + Held(job', k, {"enqueued"})
    <3>1. Len(sent) = counts[k]["checked"] + Held(job, k, {"enqueued"})
      BY <2>1, <2>7 DEF StageStory
    <3>2. /\ Held(job', k, {"enqueued"}) = Held(job, k, {"enqueued"}) + 1
          /\ Held(job, k, {"enqueued"}) \in Nat
          /\ counts'[k]["checked"] = counts[k]["checked"]
      BY <1>2, <2>4, <2>5, <2>7
    <3>3. PICK a \in Nat : a = counts[k]["checked"]
      BY <2>6
    <3>4. PICK h \in Nat : h = Held(job, k, {"enqueued"})
      BY <3>2
    <3>5. /\ Len(sent') = a + h + 1
          /\ counts'[k]["checked"] = a /\ Held(job', k, {"enqueued"}) = h + 1
      BY <1>6, <3>1, <3>2, <3>3, <3>4
    <3> QED
      BY <3>5
  <2> QED
    BY <1>2, <2>1, <2>4, <2>7 DEF StageStory
<1> QED
  BY <1>2, <1>7, <1>8 DEF StagesInv, Story

LEMMA CountEnqueuedKeepsStory ==
  ASSUME StagesInv, NEW w \in Worker, CountEnqueued(w)
  PROVE  StagesInv' /\ Grows
<1>1. StagesType /\ Story
  BY DEF StagesInv
<1> PICK i : i = job[w].at
  OBVIOUS
<1>2. /\ job[w].step = "enqueued"
      /\ job' = [job EXCEPT ![w].step = "count"]
      /\ counts' = [counts EXCEPT ![i]["checked"] = @ + 1]
      /\ UNCHANGED <<chain, totals, sent, moved>>
  BY DEF CountEnqueued, outVars
<1>3. OutJob(job[w]) /\ job[w] # Idle
  BY <1>1, <1>2 DEF StagesType, JobFits, PlainJob, RefusedJob, Idle
<1>4. i \in 1 .. Len(chain) /\ chain[i].kind = "ring_output"
  BY <1>3 DEF OutJob
<1>5. Moves(w) /\ job'[w].step = "count" /\ job'[w].at = i /\ job'[w] # Idle
  BY <1>1, <1>2, <1>3, StepMoves
<1>6. Raised(i, "checked", 1)
  <2>1. /\ counts \in [1 .. Len(chain) -> [Field -> Nat]] /\ counts[i] \in [Field -> Nat]
        /\ "checked" \in Field
    BY <1>1, <1>4, CountersAreNat DEF Field
  <2> QED
    BY <1>2, <1>4, <2>1 DEF Raised
<1>7. /\ StagesType' /\ Grows
      /\ totals'["records_in"] =
           totals'["records_dropped"] + totals'["records_forwarded"] + Busy(job')
  <2>1. SentIsSeq' /\ UNCHANGED <<totals, moved>>
    BY <1>1, <1>2, SentStays
  <2> QED
    BY <1>3, <1>5, <1>6, <2>1, InsideKeepsType
<1>8. ASSUME NEW k \in 1 .. Len(chain) PROVE StageStory(k)'
  <2>1. StageStory(k)
    BY <1>1 DEF Story
  <2>2. /\ ~Stands(job'[w], k, {"enqueued"}) /\ ~Stands(job'[w], k, {"refused"})
        /\ Stands(job'[w], k, {"count", "route"}) <=> k = i
        /\ Stands(job'[w], k, {"count"}) <=> k = i
    BY <1>5 DEF Stands
  <2>3. /\ ~Stands(job[w], k, {"count"}) /\ ~Stands(job[w], k, {"count", "route"})
        /\ ~Stands(job[w], k, {"refused"})
        /\ Stands(job[w], k, {"enqueued"}) <=> k = i
    BY <1>2 DEF Stands
  <2>4. /\ Held(job', k, {"refused"}) = Held(job, k, {"refused"})
        /\ k = i =>
             /\ Held(job', k, {"enqueued"}) = Held(job, k, {"enqueued"}) - 1
             /\ Held(job', k, {"count", "route"}) = Held(job, k, {"count", "route"}) + 1
        /\ k # i =>
             /\ Held(job', k, {"enqueued"}) = Held(job, k, {"enqueued"})
             /\ Held(job', k, {"count", "route"}) = Held(job, k, {"count", "route"})
             /\ Held(job', k, {"count"}) = Held(job, k, {"count"})
        /\ Held(job, k, {"enqueued"}) \in Nat
        /\ Held(job, k, {"count", "route"}) \in Nat
    BY <1>5, <2>2, <2>3, MovesCount
  <2>5. /\ chain[k].kind = "ring_output" => k = i
        /\ counts'[k]["checked"] = IF k = i THEN counts[k]["checked"] + 1 ELSE counts[k]["checked"]
        /\ counts'[k]["matched"] = counts[k]["matched"]
        /\ counts'[k]["missed"] = counts[k]["missed"]
    BY <1>1, <1>4, <1>6, OutIsLast DEF Sink, Field, Raised
  <2>6. /\ counts[k]["checked"] \in Nat /\ totals["records_forwarded"] \in Nat
    BY <1>1, CountersAreNat
  <2>7. CASE k # i
    BY <1>2, <2>1, <2>4, <2>5, <2>7 DEF StageStory
  <2>8. CASE k = i
    <3>1. chain[k].kind = "ring_output" /\ "ring_output" \in CountingSink
      BY <1>4, <2>8 DEF CountingSink
    <3>2. /\ counts[k]["checked"] = totals["records_forwarded"] + Held(job, k, {"count", "route"})
          /\ Len(sent) = counts[k]["checked"] + Held(job, k, {"enqueued"})
          /\ counts[k]["missed"] <= totals["records_dropped"] + Held(job, k, {"refused"})
      BY <2>1, <3>1 DEF StageStory
    <3>3. PICK a \in Nat : a = counts[k]["checked"]
      BY <2>6
    <3>4. PICK e \in Nat : e = Held(job, k, {"enqueued"})
      BY <2>4
    <3>5. PICK h \in Nat : h = Held(job, k, {"count", "route"})
      BY <2>4
    <3>6. PICK t \in Nat : t = totals["records_forwarded"]
      BY <2>6
    <3>7. /\ counts'[k]["checked"] = a + 1
          /\ Held(job', k, {"enqueued"}) = e - 1
          /\ Held(job', k, {"count", "route"}) = h + 1
          /\ Len(sent') = a + e
          /\ a = t + h /\ totals'["records_forwarded"] = t
      BY <1>2, <2>4, <2>5, <2>8, <3>2, <3>3, <3>4, <3>5, <3>6
    <3>8. /\ counts'[k]["checked"] =
               totals'["records_forwarded"] + Held(job', k, {"count", "route"})
          /\ Len(sent') = counts'[k]["checked"] + Held(job', k, {"enqueued"})
      BY <3>7
    <3>9. counts'[k]["missed"] <= totals'["records_dropped"] + Held(job', k, {"refused"})
      BY <1>2, <2>4, <2>5, <3>2
    <3> QED
      BY <1>2, <3>1, <3>8, <3>9 DEF StageStory
  <2> QED
    BY <2>7, <2>8
<1> QED
  BY <1>2, <1>7, <1>8 DEF StagesInv, Story

LEMMA RefuseKeepsStory ==
  ASSUME StagesInv, NEW w \in Worker, RefuseRecord(w)
  PROVE  StagesInv' /\ Grows
<1>1. StagesType /\ Story
  BY DEF StagesInv
<1> PICK i : i = IF job[w].step = "enqueue" THEN job[w].at ELSE At(w)
  OBVIOUS
<1>2. /\ (Ready(w) /\ OutStage(w)) \/ job[w].step = "enqueue"
      /\ job' = [job EXCEPT ![w] = [step |-> "refused", at |-> i]]
      /\ counts' = [counts EXCEPT ![i]["missed"] = @ + 1]
      /\ UNCHANGED <<chain, totals, sent, moved>>
  BY DEF RefuseRecord, outVars
<1>3. i \in 1 .. Len(chain) /\ chain[i].kind = "ring_output"
  <2>1. CASE job[w].step = "enqueue"
    <3>1. OutJob(job[w])
      BY <1>1, <2>1 DEF StagesType, JobFits, PlainJob, RefusedJob, Idle
    <3> QED
      BY <2>1, <3>1 DEF OutJob
  <2>2. CASE job[w].step # "enqueue"
    <3>1. Ready(w) /\ OutStage(w) /\ i = At(w)
      BY <1>2, <2>2
    <3> QED
      BY <1>1, <3>1, ReadyCalls DEF OutStage
  <2> QED
    BY <2>1, <2>2
<1>4. Moves(w) /\ job'[w].step = "refused" /\ job'[w].at = i /\ job'[w] # Idle
  <2>1. job'[w] = [step |-> "refused", at |-> i]
    BY <1>1, <1>2 DEF StagesType
  <2>2. DOMAIN job' = Worker /\ \A v \in Worker \ {w} : job'[v] = job[v]
    BY <1>1, <1>2 DEF StagesType
  <2>3. RefusedJob(job'[w])
    BY <1>3, <2>1 DEF RefusedJob
  <2>4. Idle.step = "idle"
    BY DEF Idle
  <2> QED
    BY <1>2, <2>1, <2>2, <2>3, <2>4 DEF Moves, JobFits
<1>5. Raised(i, "missed", 1)
  <2>1. /\ counts \in [1 .. Len(chain) -> [Field -> Nat]] /\ counts[i] \in [Field -> Nat]
        /\ "missed" \in Field
    BY <1>1, <1>3, CountersAreNat DEF Field
  <2> QED
    BY <1>2, <1>3, <2>1, OneRaised
<1>6. Ready(w) \/ job[w].step = "enqueue"
  BY <1>2
<1>7. /\ StagesType' /\ Grows
      /\ totals'["records_in"] =
           totals'["records_dropped"] + totals'["records_forwarded"] + Busy(job')
  <2>1. SentIsSeq' /\ job[w] # Idle /\ UNCHANGED <<totals, moved>>
    BY <1>1, <1>2, <1>6, SentStays, OutsideSinks
  <2> QED
    BY <1>4, <1>5, <2>1, InsideKeepsType
<1>8. ASSUME NEW k \in 1 .. Len(chain) PROVE StageStory(k)'
  <2>1. StageStory(k)
    BY <1>1 DEF Story
  <2>2. /\ ~Stands(job'[w], k, {"enqueued"}) /\ ~Stands(job'[w], k, {"count"})
        /\ ~Stands(job'[w], k, {"count", "route"})
        /\ Stands(job'[w], k, {"refused"}) <=> k = i
    BY <1>4 DEF Stands
  <2>3. /\ ~Stands(job[w], k, {"count"}) /\ ~Stands(job[w], k, {"enqueued"})
        /\ ~Stands(job[w], k, {"refused"})
        /\ chain[k].kind \in Sink => ~Stands(job[w], k, {"count", "route"})
    BY <1>1, <1>6, OutsideSinks
  <2>4. /\ Held(job', k, {"count"}) = Held(job, k, {"count"})
        /\ Held(job', k, {"enqueued"}) = Held(job, k, {"enqueued"})
        /\ chain[k].kind \in Sink => Held(job', k, {"count", "route"}) = Held(job, k, {"count", "route"})
        /\ k = i => Held(job', k, {"refused"}) = Held(job, k, {"refused"}) + 1
        /\ Held(job, k, {"refused"}) \in Nat
    BY <1>4, <2>2, <2>3, MovesCount
  <2>5. /\ chain[k].kind = "ring_output" <=> k = i
        /\ chain[k].kind \in Sink => k = i
        /\ counts'[k]["checked"] = counts[k]["checked"]
        /\ counts'[k]["matched"] = counts[k]["matched"]
        /\ counts'[k]["missed"] = IF k = i THEN counts[k]["missed"] + 1 ELSE counts[k]["missed"]
    BY <1>1, <1>3, <1>5, OutIsLast DEF Sink, Field, Raised
  <2>6. /\ counts[k]["missed"] \in Nat /\ totals["records_dropped"] \in Nat
    BY <1>1, CountersAreNat
  <2>7. CASE k # i
    BY <1>2, <2>1, <2>4, <2>5, <2>7 DEF StageStory, CountingSink, Sink
  <2>8. CASE k = i
    <3>1. chain[k].kind = "ring_output" /\ "ring_output" \in CountingSink /\ chain[k].kind \in Sink
      BY <1>3, <2>8 DEF CountingSink, Sink
    <3>2. /\ counts[k]["checked"] = totals["records_forwarded"] + Held(job, k, {"count", "route"})
          /\ Len(sent) = counts[k]["checked"] + Held(job, k, {"enqueued"})
          /\ counts[k]["missed"] <= totals["records_dropped"] + Held(job, k, {"refused"})
      BY <2>1, <3>1 DEF StageStory
    <3>3. PICK a \in Nat : a = counts[k]["missed"]
      BY <2>6
    <3>4. PICK h \in Nat : h = Held(job, k, {"refused"})
      BY <2>4
    <3>5. PICK t \in Nat : t = totals["records_dropped"]
      BY <2>6
    <3>6. /\ counts'[k]["missed"] = a + 1 /\ Held(job', k, {"refused"}) = h + 1
          /\ a <= t + h /\ totals'["records_dropped"] = t
      BY <1>2, <2>4, <2>5, <2>8, <3>2, <3>3, <3>4, <3>5
    <3>7. counts'[k]["missed"] <= totals'["records_dropped"] + Held(job', k, {"refused"})
      BY <3>6
    <3> QED
      BY <1>2, <2>4, <2>5, <3>1, <3>2, <3>7 DEF StageStory
  <2> QED
    BY <2>7, <2>8
<1> QED
  BY <1>2, <1>7, <1>8 DEF StagesInv, Story

-------------------------------------------------------------------------------
\* The inductive invariant.

LEMMA WalkKeepsStory ==
  ASSUME StagesInv, NEW w \in Worker, Walk(w)
  PROVE  StagesInv' /\ Grows /\ UNCHANGED statusVars
<1>1. CASE \E raw \in Raw : TakeRecord(w, raw)
  BY <1>1, TakeKeepsStory DEF TakeRecord
<1>2. CASE DropRecord(w)
  BY <1>2, DropRecordKeepsStory DEF DropRecord
<1>3. CASE Process(w)
  BY <1>3, ProcessKeepsStory DEF Process
<1>4. CASE CountOutcome(w)
  BY <1>4, CountOutcomeKeepsStory DEF CountOutcome
<1>5. CASE FrameRecord(w)
  BY <1>5, FrameKeepsStory DEF FrameRecord
<1>6. CASE EnqueueRecord(w)
  BY <1>6, EnqueueKeepsStory DEF EnqueueRecord
<1>7. CASE CountEnqueued(w)
  BY <1>7, CountEnqueuedKeepsStory DEF CountEnqueued
<1>8. CASE RefuseRecord(w)
  BY <1>8, RefuseKeepsStory DEF RefuseRecord
<1>9. CASE DropRefused(w)
  BY <1>9, DropRefusedKeepsStory DEF DropRefused
<1>10. CASE DropFlagged(w)
  BY <1>10, DropFlaggedKeepsStory DEF DropFlagged
<1>11. CASE ForwardRecord(w)
  BY <1>11, ForwardKeepsStory DEF ForwardRecord
<1> QED
  BY <1>1, <1>2, <1>3, <1>4, <1>5, <1>6, <1>7, <1>8, <1>9, <1>10, <1>11 DEF Walk, RingOutput

\* The status loop reads what the workers write and writes nothing they read.
LEMMA StatusKeepsStory ==
  ASSUME StagesInv, UNCHANGED <<chain, job, totals, counts, sent>>, moved' \in BOOLEAN
  PROVE  StagesInv'
<1>1. StagesType /\ Story
  BY DEF StagesInv
<1>2. StagesType'
  <2>1. SentIsSeq'
    BY <1>1, SentStays
  <2>2. (\A w \in Worker : JobFits(job[w]))'
    BY <1>1 DEF StagesType, JobFits, PlainJob, OutJob, RefusedJob
  <2> QED
    BY <1>1, <2>1, <2>2 DEF StagesType
<1>3. Story'
  BY <1>1 DEF Story, StageStory
<1> QED
  BY <1>2, <1>3 DEF StagesInv

LEMMA StatusLoopLeaves ==
  ASSUME StatusLoop \/ UNCHANGED stageVars \/ Quiet
  PROVE  UNCHANGED <<chain, job, totals, counts, sent>>
BY DEF StatusLoop, LoadTotal, UpdateTotals, LoadStage, UpdateStages, Load, Publish, Quiet,
       stageVars, workerVars, outVars

LEMMA NextKeepsStory ==
  ASSUME StagesInv, [StagesNext]_stageVars
  PROVE  StagesInv'
<1>1. CASE \E w \in Worker : Walk(w)
  BY <1>1, WalkKeepsStory
<1>2. CASE StatusLoop \/ UNCHANGED stageVars \/ Quiet
  <2>1. moved \in BOOLEAN
    BY DEF StagesInv, StagesType
  <2>2. CASE \E c \in Total : LoadTotal(c)
    <3>1. moved' \in BOOLEAN
      BY <2>2 DEF LoadTotal
    <3> QED
      BY <1>2, <3>1, StatusLoopLeaves, StatusKeepsStory
  <2>3. CASE moved' = moved
    BY <1>2, <2>1, <2>3, StatusLoopLeaves, StatusKeepsStory
  <2>4. (\E c \in Total : LoadTotal(c)) \/ moved' = moved
    BY <1>2 DEF StatusLoop, UpdateTotals, LoadStage, UpdateStages, Quiet, stageVars
  <2> QED
    BY <2>2, <2>3, <2>4
<1> QED
  BY <1>1, <1>2 DEF StagesNext

LEMMA InitTellsStory ==
  ASSUME StagesInit
  PROVE  StagesInv
<1>1. chain \in Chain /\ Len(chain) \in Nat
  BY ChainEndsInSink DEF StagesInit
<1>2. /\ DOMAIN job = Worker /\ \A w \in Worker : job[w] = Idle
      /\ totals \in [Total -> Nat] /\ \A c \in Total : totals[c] = 0
      /\ counts \in [1 .. Len(chain) -> [Field -> Nat]]
      /\ \A i \in 1 .. Len(chain), f \in Field : counts[i][f] = 0
      /\ moved = FALSE /\ sent = <<>>
  BY DEF StagesInit, NoTotals, NoCounts
<1>3. SentIsSeq
  BY <1>2 DEF SentIsSeq
<1>4. StagesType
  BY <1>1, <1>2, <1>3 DEF StagesType, JobFits
<1>5. Busy(job) = 0
  <2>1. {w \in Worker : job[w] # Idle} = {}
    BY <1>2
  <2> QED
    BY <2>1, FS_EmptySet DEF Busy
<1>6. ASSUME NEW i \in 1 .. Len(chain) PROVE StageStory(i)
  <2>1. \A steps \in Places : Held(job, i, steps) = 0
    <3>1. \A steps \in Places : {w \in Worker : Stands(job[w], i, steps)} = {}
      BY <1>2 DEF Stands, Places, Idle
    <3> QED
      BY <3>1, FS_EmptySet DEF Held
  <2>2. Len(sent) = 0
    BY <1>2
  <2> QED
    BY <1>2, <2>1, <2>2 DEF StageStory, Places, Total, Field
<1> QED
  BY <1>2, <1>4, <1>5, <1>6 DEF StagesInv, Story, Total

THEOREM StagesCorrect == StagesSpec => []StagesInv
<1>1. StagesInit => StagesInv
  BY InitTellsStory
<1>2. StagesInv /\ [StagesNext]_stageVars => StagesInv'
  BY NextKeepsStory
<1> QED
  BY <1>1, <1>2, PTL DEF StagesSpec

\* Whatever the workers do between the increments of process(), the counters of the
\* stages agree with those of pipeline_run() and with the ring (pipeline.c:55-117,
\* stages/*.c): what a match stage checked it matched or not, but for the workers that
\* have yet to say which; a counting sink and a ring_output stage have what was
\* forwarded and what the workers hold.
THEOREM CountersAgree == StagesSpec => []CountersTellOneStory
<1>1. StagesInv => CountersTellOneStory
  <2> SUFFICES ASSUME StagesInv PROVE CountersTellOneStory
    OBVIOUS
  <2>1. StagesType /\ Story
    BY DEF StagesInv
  <2>2. ASSUME NEW i \in 1 .. Len(chain), chain[i].kind = "validate"
        PROVE  counts[i]["missed"] <= counts[i]["checked"]
    <3>1. counts[i]["missed"] + Held(job, i, {"count"}) <= counts[i]["checked"]
      BY <2>1, <2>2 DEF Story, StageStory
    <3>2. Held(job, i, {"count"}) \in Nat
      <4>1. IsFiniteSet({v \in Worker : Stands(job[v], i, {"count"})})
        BY StagesAssumption, FS_Subset
      <4> QED
        BY <4>1, FS_CardinalityType DEF Held
    <3> QED
      BY <2>1, <3>1, <3>2, CountersAreNat
  <2>3. \A i \in 1 .. Len(chain) : StageStory(i)
    BY <2>1 DEF Story
  <2> QED
    BY <2>2, <2>3 DEF CountersTellOneStory, StageStory, CountingSink, Held, Stands
<1> QED
  BY <1>1, StagesCorrect, PTL

-------------------------------------------------------------------------------
\* The status loop.

\* What is published is no more than what has been counted, and what an update has
\* loaded is between the two; without a count since its first load it is what the
\* totals are.
StatusInv ==
  /\ shown \in [Total -> Nat] /\ \A c \in Total : shown[c] <= totals[c]
  /\ shown_stages \in [1 .. Len(chain) -> [Field -> Nat]]
  /\ \A i \in 1 .. Len(chain), f \in Field : shown_stages[i][f] <= counts[i][f]
  /\ loading \in {"none", "totals", "stages"}
  /\ loading = "none" => DOMAIN loaded = {}
  /\ loading = "totals" =>
       /\ loaded = [c \in DOMAIN loaded |-> loaded[c]]
       /\ DOMAIN loaded \subseteq Total
       /\ \A c \in DOMAIN loaded :
            /\ loaded[c] \in Nat /\ shown[c] <= loaded[c] /\ loaded[c] <= totals[c]
            /\ ~moved => loaded[c] = totals[c]
  /\ loading = "stages" =>
       /\ DOMAIN loaded \subseteq StageFields
       /\ \A i \in 1 .. Len(chain), f \in Field :
            <<i, f>> \in DOMAIN loaded =>
              /\ loaded[<<i, f>>] \in Nat
              /\ shown_stages[i][f] <= loaded[<<i, f>>] /\ loaded[<<i, f>>] <= counts[i][f]

\* What a poll of GET /status.json and GET /api/stage-status sees grows.
ShownGrows ==
  /\ chain' = chain
  /\ \A c \in Total : shown[c] <= shown'[c] /\ shown'[c] <= totals'[c]
  /\ \A i \in 1 .. Len(chain) : \A f \in Fields(chain[i]) :
       shown_stages[i][f] <= shown_stages'[i][f] /\ shown_stages'[i][f] <= counts'[i][f]

LEMMA FieldsAreFields ==
  ASSUME NEW st
  PROVE  Fields(st) \subseteq Field
BY DEF Fields, Field, ValidateFields, ByteMatchFields, NullSinkFields, DumpBinaryFields,
       RingOutputFields

LEMMA WalkKeepsStatus ==
  ASSUME StagesInv, StatusInv, Grows, UNCHANGED statusVars
  PROVE  StatusInv' /\ ShownGrows
<1>1. /\ chain' = chain
      /\ shown' = shown /\ shown_stages' = shown_stages /\ loading' = loading /\ loaded' = loaded
      /\ totals \in [Total -> Nat] /\ totals' \in [Total -> Nat]
      /\ \A c \in Total : totals[c] <= totals'[c]
      /\ counts \in [1 .. Len(chain) -> [Field -> Nat]]
      /\ counts' \in [1 .. Len(chain) -> [Field -> Nat]]
      /\ \A i \in 1 .. Len(chain), f \in Field : counts[i][f] <= counts'[i][f]
      /\ moved' = TRUE \/ (moved' = moved /\ totals' = totals)
  BY CountersAreNat DEF StagesInv, Grows, statusVars
<1>2. \A i \in 1 .. Len(chain), f \in Field :
        counts[i][f] \in Nat /\ counts'[i][f] \in Nat /\ shown_stages[i][f] \in Nat
  BY <1>1 DEF StatusInv
<1>3. \A c \in Total : totals[c] \in Nat /\ totals'[c] \in Nat /\ shown[c] \in Nat
  BY <1>1 DEF StatusInv
<1>4. \A c \in Total : shown[c] <= totals[c] /\ shown[c] <= totals'[c]
  BY <1>1, <1>3 DEF StatusInv
<1>5. \A i \in 1 .. Len(chain), f \in Field :
        shown_stages[i][f] <= counts[i][f] /\ shown_stages[i][f] <= counts'[i][f]
  BY <1>1, <1>2 DEF StatusInv
<1>6. ShownGrows
  BY <1>1, <1>2, <1>3, <1>4, <1>5, FieldsAreFields DEF ShownGrows
<1>7. loading = "totals" =>
        \A c \in DOMAIN loaded :
          /\ loaded[c] \in Nat /\ shown[c] <= loaded[c] /\ loaded[c] <= totals'[c]
          /\ ~moved' => loaded[c] = totals'[c]
  BY <1>1, <1>3 DEF StatusInv
<1>8. loading = "stages" =>
        \A i \in 1 .. Len(chain), f \in Field :
          <<i, f>> \in DOMAIN loaded =>
            /\ loaded[<<i, f>>] \in Nat
            /\ shown_stages[i][f] <= loaded[<<i, f>>] /\ loaded[<<i, f>>] <= counts'[i][f]
  BY <1>1, <1>2 DEF StatusInv
<1>9. StageFields' = StageFields
  BY <1>1 DEF StageFields
<1> QED
  BY <1>1, <1>4, <1>5, <1>6, <1>7, <1>8, <1>9 DEF StatusInv

LEMMA LoadTotalKeepsStatus ==
  ASSUME StagesInv, StatusInv, NEW c \in Total, LoadTotal(c)
  PROVE  StatusInv' /\ ShownGrows
<1>1. /\ totals \in [Total -> Nat] /\ \A d \in Total : totals[d] \in Nat
      /\ \A i \in 1 .. Len(chain), f \in Field : counts[i][f] \in Nat
  BY CountersAreNat DEF StagesInv
<1>2. /\ loading \in {"none", "totals"} /\ c \notin DOMAIN loaded /\ loading' = "totals"
      /\ loaded' = [k \in DOMAIN loaded \cup {c} |-> IF k = c THEN totals[c] ELSE loaded[k]]
      /\ moved' = (loading = "totals" /\ moved)
      /\ UNCHANGED <<chain, totals, counts, shown, shown_stages>>
  BY DEF LoadTotal, Load, workerVars
<1>3. DOMAIN loaded' = DOMAIN loaded \cup {c} /\ DOMAIN loaded \subseteq Total
  BY <1>2 DEF StatusInv
<1>4. ASSUME NEW d \in DOMAIN loaded'
      PROVE  /\ loaded'[d] \in Nat /\ shown[d] <= loaded'[d] /\ loaded'[d] <= totals[d]
             /\ ~moved' => loaded'[d] = totals[d]
  <2>1. CASE d = c
    <3>1. loaded'[d] = totals[c] /\ shown[c] <= totals[c]
      BY <1>2, <1>3, <2>1 DEF StatusInv
    <3> QED
      BY <1>1, <2>1, <3>1
  <2>2. CASE d # c
    <3>1. loaded'[d] = loaded[d] /\ d \in DOMAIN loaded
      BY <1>2, <1>3, <2>2
    <3>2. loading = "totals" /\ (~moved' => ~moved)
      BY <1>2, <3>1 DEF StatusInv
    <3> QED
      BY <3>1, <3>2 DEF StatusInv
  <2> QED
    BY <2>1, <2>2
<1>5. loaded' = [d \in DOMAIN loaded' |-> loaded'[d]]
  BY <1>2
<1>6. StatusInv'
  BY <1>2, <1>3, <1>4, <1>5 DEF StatusInv
<1>7. ShownGrows
  BY <1>1, <1>2, FieldsAreFields DEF ShownGrows, StatusInv
<1> QED
  BY <1>6, <1>7

LEMMA UpdateTotalsKeepsStatus ==
  ASSUME StagesInv, StatusInv, UpdateTotals
  PROVE  StatusInv' /\ ShownGrows
<1>1. /\ loading = "totals" /\ DOMAIN loaded = Total /\ shown' = loaded
      /\ loaded' = <<>> /\ loading' = "none"
      /\ UNCHANGED <<chain, totals, counts, shown_stages>>
  BY DEF UpdateTotals, Publish, workerVars
<1>2. shown' \in [Total -> Nat] /\ DOMAIN loaded' = {}
  BY <1>1 DEF StatusInv
<1>3. StatusInv'
  BY <1>1, <1>2 DEF StatusInv
<1>4. \A i \in 1 .. Len(chain), f \in Field : shown_stages[i][f] \in Nat
  BY DEF StatusInv
<1>5. ShownGrows
  BY <1>1, <1>4, FieldsAreFields DEF ShownGrows, StatusInv
<1> QED
  BY <1>3, <1>5

LEMMA LoadStageKeepsStatus ==
  ASSUME StagesInv, StatusInv, NEW i \in 1 .. Len(chain), NEW f \in Field, LoadStage(i, f)
  PROVE  StatusInv' /\ ShownGrows
<1>1. /\ totals \in [Total -> Nat] /\ \A d \in Total : totals[d] \in Nat
      /\ \A k \in 1 .. Len(chain), g \in Field : counts[k][g] \in Nat
  BY CountersAreNat DEF StagesInv
<1>2. /\ loading \in {"none", "stages"} /\ loading' = "stages"
      /\ <<i, f>> \in StageFields
      /\ loaded' = [k \in DOMAIN loaded \cup {<<i, f>>} |->
                      IF k = <<i, f>> THEN counts[i][f] ELSE loaded[k]]
      /\ UNCHANGED <<chain, totals, counts, shown, shown_stages, moved>>
  BY DEF LoadStage, Load, workerVars
<1>3. DOMAIN loaded' = DOMAIN loaded \cup {<<i, f>>} /\ DOMAIN loaded \subseteq StageFields
  BY <1>2 DEF StatusInv
<1>4. ASSUME NEW k \in 1 .. Len(chain), NEW g \in Field, <<k, g>> \in DOMAIN loaded'
      PROVE  /\ loaded'[<<k, g>>] \in Nat
             /\ shown_stages[k][g] <= loaded'[<<k, g>>] /\ loaded'[<<k, g>>] <= counts[k][g]
  <2>1. CASE k = i /\ g = f
    <3>1. loaded'[<<k, g>>] = counts[i][f] /\ shown_stages[i][f] <= counts[i][f]
      BY <1>2, <1>3, <2>1 DEF StatusInv
    <3> QED
      BY <1>1, <2>1, <3>1
  <2>2. CASE ~(k = i /\ g = f)
    <3>1. <<k, g>> # <<i, f>>
      BY <2>2
    <3>2. loaded'[<<k, g>>] = loaded[<<k, g>>] /\ <<k, g>> \in DOMAIN loaded
      BY <1>2, <1>3, <1>4, <3>1
    <3>3. loading = "stages"
      BY <1>2, <3>2 DEF StatusInv
    <3> QED
      BY <3>2, <3>3 DEF StatusInv
  <2> QED
    BY <2>1, <2>2
<1>5. StageFields' = StageFields
  BY <1>2 DEF StageFields
<1>6. StatusInv'
  BY <1>2, <1>3, <1>4, <1>5 DEF StatusInv
<1>7. ShownGrows
  <2>1. /\ \A k \in 1 .. Len(chain), g \in Field : shown_stages[k][g] \in Nat
        /\ \A d \in Total : shown[d] \in Nat
    BY DEF StatusInv
  <2> QED
    BY <1>1, <1>2, <2>1, FieldsAreFields DEF ShownGrows, StatusInv
<1> QED
  BY <1>6, <1>7

LEMMA UpdateStagesKeepsStatus ==
  ASSUME StagesInv, StatusInv, UpdateStages
  PROVE  StatusInv' /\ ShownGrows
<1>1. /\ loading = "stages" /\ DOMAIN loaded = StageFields
      /\ loaded' = <<>> /\ loading' = "none"
      /\ shown_stages' = [i \in 1 .. Len(chain) |-> [f \in Field |->
                            IF <<i, f>> \in StageFields THEN loaded[<<i, f>>] ELSE 0]]
      /\ UNCHANGED <<chain, totals, counts, shown>>
  BY DEF UpdateStages, Publish, workerVars
<1>2. \A i \in 1 .. Len(chain), f \in Field :
        /\ counts[i][f] \in Nat
        /\ <<i, f>> \in StageFields =>
             /\ loaded[<<i, f>>] \in Nat
             /\ shown_stages[i][f] <= loaded[<<i, f>>] /\ loaded[<<i, f>>] <= counts[i][f]
  BY <1>1, CountersAreNat DEF StatusInv, StagesInv
<1>3. \A i \in 1 .. Len(chain), f \in Field :
        /\ shown_stages'[i][f] = IF <<i, f>> \in StageFields THEN loaded[<<i, f>>] ELSE 0
        /\ shown_stages'[i][f] \in Nat /\ shown_stages'[i][f] <= counts[i][f]
  <2> TAKE i \in 1 .. Len(chain), f \in Field
  <2>1. shown_stages'[i][f] = IF <<i, f>> \in StageFields THEN loaded[<<i, f>>] ELSE 0
    BY <1>1
  <2>2. CASE <<i, f>> \in StageFields
    BY <1>2, <2>1, <2>2
  <2>3. CASE <<i, f>> \notin StageFields
    BY <1>2, <2>1, <2>3
  <2> QED
    BY <2>1, <2>2, <2>3
<1>4. shown_stages' \in [1 .. Len(chain) -> [Field -> Nat]]
  BY <1>1, <1>2
<1>5. StatusInv'
  <2>1. DOMAIN loaded' = {}
    BY <1>1
  <2> QED
    BY <1>1, <1>3, <1>4, <2>1 DEF StatusInv
<1>6. \A i \in 1 .. Len(chain) : \A f \in Fields(chain[i]) : f \in Field /\ <<i, f>> \in StageFields
  BY FieldsAreFields DEF StageFields
<1>7. \A c \in Total : shown[c] \in Nat
  BY DEF StatusInv
<1>8. \A i \in 1 .. Len(chain) : \A f \in Fields(chain[i]) :
        shown_stages[i][f] <= shown_stages'[i][f] /\ shown_stages'[i][f] <= counts'[i][f]
  <2> TAKE i \in 1 .. Len(chain)
  <2> TAKE f \in Fields(chain[i])
  <2>1. f \in Field /\ <<i, f>> \in StageFields
    BY <1>6
  <2>2. shown_stages'[i][f] = loaded[<<i, f>>] /\ shown_stages'[i][f] <= counts[i][f]
    BY <1>3, <2>1
  <2> QED
    BY <1>1, <1>2, <2>1, <2>2
<1>9. \A c \in Total : shown[c] <= shown'[c] /\ shown'[c] <= totals'[c]
  BY <1>1, <1>7 DEF StatusInv
<1>10. ShownGrows
  BY <1>1, <1>8, <1>9 DEF ShownGrows
<1> QED
  BY <1>5, <1>10

LEMMA NextKeepsStatus ==
  ASSUME StagesInv, StatusInv, [StagesNext]_stageVars
  PROVE  StatusInv' /\ ShownGrows
<1>1. CASE \E w \in Worker : Walk(w)
  BY <1>1, WalkKeepsStory, WalkKeepsStatus
<1>2. CASE \E c \in Total : LoadTotal(c)
  BY <1>2, LoadTotalKeepsStatus
<1>3. CASE UpdateTotals
  BY <1>3, UpdateTotalsKeepsStatus
<1>4. CASE \E i \in 1 .. Len(chain), f \in Field : LoadStage(i, f)
  BY <1>4, LoadStageKeepsStatus
<1>5. CASE UpdateStages
  BY <1>5, UpdateStagesKeepsStatus
<1>6. CASE UNCHANGED stageVars \/ Quiet
  <2>1. UNCHANGED stageVars
    BY <1>6 DEF Quiet
  <2>2. Grows
    <3>1. /\ totals \in [Total -> Nat] /\ \A c \in Total : totals[c] \in Nat
          /\ counts \in [1 .. Len(chain) -> [Field -> Nat]]
          /\ \A i \in 1 .. Len(chain), f \in Field : counts[i][f] \in Nat
      BY CountersAreNat DEF StagesInv
    <3>2. UNCHANGED <<chain, totals, counts, moved>>
      BY <2>1 DEF stageVars, workerVars
    <3> QED
      BY <3>1, <3>2 DEF Grows
  <2>3. UNCHANGED statusVars
    BY <2>1 DEF stageVars
  <2> QED
    BY <2>2, <2>3, WalkKeepsStatus
<1> QED
  BY <1>1, <1>2, <1>3, <1>4, <1>5, <1>6 DEF StagesNext, StatusLoop

LEMMA InitShows ==
  ASSUME StagesInit
  PROVE  StatusInv
<1>1. /\ totals = NoTotals /\ counts = NoCounts /\ shown = NoTotals /\ shown_stages = NoCounts
      /\ loading = "none" /\ DOMAIN loaded = {}
  BY DEF StagesInit
<1>2. /\ NoTotals \in [Total -> Nat] /\ NoCounts \in [1 .. Len(chain) -> [Field -> Nat]]
      /\ \A c \in Total : NoTotals[c] = 0
      /\ \A i \in 1 .. Len(chain), f \in Field : NoCounts[i][f] = 0
  BY DEF NoTotals, NoCounts
<1> QED
  BY <1>1, <1>2 DEF StatusInv

THEOREM StatusCorrect == StagesSpec => [](StagesInv /\ StatusInv)
<1>1. StagesInit => StagesInv /\ StatusInv
  BY InitTellsStory, InitShows
<1>2. StagesInv /\ StatusInv /\ [StagesNext]_stageVars => (StagesInv /\ StatusInv)'
  BY NextKeepsStory, NextKeepsStatus
<1> QED
  BY <1>1, <1>2, PTL DEF StagesSpec

\* A status that no count overlapped adds up, whatever the order in which main() loads
\* the three counters (main.c:496-500): what it lacks is what the workers have in hand.
THEOREM QuietStatusAddsUp == StagesSpec => []StatusAddsUp
<1>1. StagesInv /\ StatusInv => StatusAddsUp
  <2> SUFFICES ASSUME StagesInv, StatusInv, loading = "totals", DOMAIN loaded = Total, ~moved
               PROVE  InHand(loaded) = Cardinality({w \in Worker : job[w] # Idle})
    BY DEF StatusAddsUp
  <2>1. /\ loaded["records_in"] = totals["records_in"]
        /\ loaded["records_dropped"] = totals["records_dropped"]
        /\ loaded["records_forwarded"] = totals["records_forwarded"]
    BY DEF StatusInv, Total
  <2>2. totals["records_in"] = totals["records_dropped"] + totals["records_forwarded"] + Busy(job)
    BY DEF StagesInv, Story
  <2>3. /\ totals["records_in"] \in Nat /\ totals["records_dropped"] \in Nat
        /\ totals["records_forwarded"] \in Nat
    BY CountersAreNat DEF StagesInv
  <2>4. Busy(job) \in Nat
    <3>1. IsFiniteSet({w \in Worker : job[w] # Idle})
      BY StagesAssumption, FS_Subset
    <3> QED
      BY <3>1, FS_CardinalityType DEF Busy
  <2>5. Busy(job) = Cardinality({w \in Worker : job[w] # Idle})
    BY DEF Busy
  <2>6. InHand(loaded) = Busy(job)
    BY <2>1, <2>2, <2>3, <2>4 DEF InHand
  <2> QED
    BY <2>5, <2>6
<1> QED
  BY <1>1, StatusCorrect, PTL

\* What a client polls never goes back and never runs ahead of the counters, also while
\* workers count between the loads of an update (web_status.c:66-98).
THEOREM StatusGrows == StagesSpec => StatusNeverGoesBack
<1> DEFINE Step == /\ \A c \in Total : StatusJson[c] <= StatusJson'[c] /\ StatusJson'[c] <= totals'[c]
                   /\ \A i \in 1 .. Len(chain) : \A f \in Fields(chain[i]) :
                        StageStatus[i][f] <= StageStatus'[i][f] /\ StageStatus'[i][f] <= counts'[i][f]
<1>1. StagesInv /\ StatusInv /\ [StagesNext]_stageVars => Step
  <2> SUFFICES ASSUME StagesInv, StatusInv, [StagesNext]_stageVars PROVE Step
    OBVIOUS
  <2>1. ShownGrows
    BY NextKeepsStatus
  <2>2. \A i \in 1 .. Len(chain) : \A f \in Fields(chain[i]) :
          StageStatus[i][f] = shown_stages[i][f] /\ StageStatus'[i][f] = shown_stages'[i][f]
    BY <2>1 DEF StageStatus, ShownGrows
  <2> QED
    BY <2>1, <2>2 DEF ShownGrows, StatusJson
<1> QED
  BY <1>1, StatusCorrect, PTL DEF StagesSpec, StatusNeverGoesBack

-------------------------------------------------------------------------------
\* What the stages are called with.

IsRecord(r) ==
  /\ r \in Seq(Int) /\ Len(r) \in Nat /\ HdrLen <= Len(r) /\ Len(r) <= Cap
  /\ r[3] = Len(r) - HdrLen

\* The first len cells of a buffer are these.
Holds(buf, len, cells) ==
  /\ cells \in Seq(Int) /\ Len(cells) = len /\ len \in Nat /\ len <= Cap
  /\ \A i \in 1 .. len : buf[i] = cells[i]

LEMMA HoldsWhole ==
  ASSUME NEW buf, NEW len, NEW cells, Holds(buf, len, cells)
  PROVE  Whole(buf, len) = cells
<1>1. /\ cells \in Seq(Int) /\ Len(cells) = len /\ len \in Nat /\ 1 \in Int /\ len \in Int
      /\ \A i \in 1 .. len : buf[i] = cells[i]
  BY DEF Holds
<1>2. \A i \in 1 .. len : buf[i] \in Int
  <2>1. \A i \in 1 .. Len(cells) : cells[i] \in Int
    BY <1>1, ElementOfSeq
  <2> QED
    BY <1>1, <2>1
<1>3. /\ SubSeq(buf, 1, len) \in Seq(Int)
      /\ Len(SubSeq(buf, 1, len)) = IF 1 <= len THEN len - 1 + 1 ELSE 0
      /\ \A i \in 1 .. len - 1 + 1 : SubSeq(buf, 1, len)[i] = buf[1 + i - 1]
  BY <1>1, <1>2, SubSeqProperties
<1> PICK s \in Seq(Int) : s = SubSeq(buf, 1, len)
  BY <1>3
<1>4. Len(s) = len /\ \A i \in 1 .. len : s[i] = cells[i]
  BY <1>1, <1>3
<1>5. s = cells
  BY <1>1, <1>4, SeqEqual
<1> QED
  BY <1>5 DEF Whole

LEMMA HoldsOverwritten ==
  ASSUME NEW buf, NEW out \in Seq(Int), Len(out) <= Cap
  PROVE  Holds(Overwrite(buf, out), Len(out), out)
<1>1. Len(out) \in Nat /\ Cap \in Nat
  BY LenProperties, StagesAssumption
<1> QED
  BY <1>1 DEF Holds, Overwrite

\* A scratch buffer.
IsScratch(buf) == \A i \in 1 .. Cap : buf[i] \in Int

LEMMA OverwrittenScratch ==
  ASSUME NEW buf, IsScratch(buf), NEW out \in Seq(Int)
  PROVE  IsScratch(Overwrite(buf, out))
<1>1. Cap \in Nat /\ Len(out) \in Nat
  BY LenProperties, StagesAssumption
<1>2. ASSUME NEW i \in 1 .. Cap PROVE Overwrite(buf, out)[i] \in Int
  <2>1. Overwrite(buf, out)[i] = IF i <= Len(out) THEN out[i] ELSE buf[i]
    BY DEF Overwrite
  <2>2. i <= Len(out) => out[i] \in Int
    <3>1. i <= Len(out) => i \in 1 .. Len(out)
      BY <1>1
    <3> QED
      BY <3>1, ElementOfSeq
  <2> QED
    BY <2>1, <2>2 DEF IsScratch
<1> QED
  BY <1>2 DEF IsScratch

\* AsSeenBy with what it asks of the stages before i named.
CellsOf(st, field) ==
  IF st.mode = "bytes" THEN field ELSE IF Len(field) = 1 THEN <<0, field[1]>> ELSE field
Converted(st, cells) == Double((cells[1] * Base + cells[2]) * st.scale + st.offset)
SeenAs(cut, converts, r) ==
  IF cut = {} THEN r
  ELSE LET st    == chain[CHOOSE k \in cut : TRUE]
           cells == CellsOf(st, FieldOf(st, r))
       IN  IF converts = {} THEN cells
           ELSE Converted(chain[CHOOSE k \in converts : TRUE], cells)

LEMMA SeenAsIsSeen ==
  ASSUME NEW i, NEW r
  PROVE  AsSeenBy(i, r) = SeenAs(Cut(i, r), Before(i, "convert"), r)
BY DEF AsSeenBy, SeenAs, CellsOf, Converted

\* What stage 1 is called with, and what one that neither extracts nor converts hands on.
LEMMA SeenFirst ==
  ASSUME NEW r
  PROVE  AsSeenBy(1, r) = r
<1>1. Cut(1, r) = {}
  BY DEF Cut, Before
<1> QED
  BY <1>1, SeenAsIsSeen DEF SeenAs

LEMMA SeenOn ==
  ASSUME NEW i \in Nat \ {0}, NEW r, chain[i].kind \notin {"extract", "convert"}
  PROVE  AsSeenBy(i + 1, r) = AsSeenBy(i, r)
<1>1. Before(i + 1, "extract") = Before(i, "extract")
      /\ Before(i + 1, "convert") = Before(i, "convert")
  BY DEF Before
<1>2. Cut(i + 1, r) = Cut(i, r)
  BY <1>1 DEF Cut
<1> QED
  BY <1>1, <1>2, SeenAsIsSeen, Zenon

\* What an extract or a convert stage hands on.
LEMMA SeenUncut ==
  ASSUME NEW i, NEW r, Cut(i, r) = {}
  PROVE  AsSeenBy(i, r) = r
BY SeenAsIsSeen DEF SeenAs

LEMMA SeenCut ==
  ASSUME NEW i, NEW r, NEW k, Cut(i, r) = {k}, Before(i, "convert") = {}
  PROVE  AsSeenBy(i, r) = CellsOf(chain[k], FieldOf(chain[k], r))
<1>1. (CHOOSE x \in {k} : TRUE) = k
  OBVIOUS
<1> QED
  BY <1>1, SeenAsIsSeen DEF SeenAs

LEMMA SeenConverted ==
  ASSUME NEW i, NEW r, NEW k, NEW c, Cut(i, r) = {k}, Before(i, "convert") = {c}
  PROVE  AsSeenBy(i, r) = Converted(chain[c], CellsOf(chain[k], FieldOf(chain[k], r)))
<1>1. (CHOOSE x \in {k} : TRUE) = k /\ (CHOOSE x \in {c} : TRUE) = c
  OBVIOUS
<1> QED
  BY <1>1, SeenAsIsSeen DEF SeenAs

\* n cells behind the first m.
LEMMA SliceOfInts ==
  ASSUME NEW s, NEW m \in Nat, NEW n \in Nat, \A i \in 1 .. n : s[m + i] \in Int
  PROVE  /\ SubSeq(s, m + 1, m + n) \in Seq(Int)
         /\ Len(SubSeq(s, m + 1, m + n)) = n
         /\ \A i \in 1 .. n : SubSeq(s, m + 1, m + n)[i] = s[m + i]
<1>1. PICK a \in Int, b \in Int : a = m + 1 /\ b = m + n
  OBVIOUS
<1>2. ASSUME NEW i \in a .. b PROVE s[i] \in Int
  <2>1. i - m \in 1 .. n /\ m + (i - m) = i
    BY <1>1
  <2> QED
    BY <2>1
<1>3. /\ SubSeq(s, a, b) \in Seq(Int)
      /\ Len(SubSeq(s, a, b)) = IF a <= b THEN b - a + 1 ELSE 0
      /\ \A i \in 1 .. b - a + 1 : SubSeq(s, a, b)[i] = s[a + i - 1]
  BY <1>2, SubSeqProperties
<1>4. (IF a <= b THEN b - a + 1 ELSE 0) = n /\ b - a + 1 = n
  BY <1>1
<1>5. ASSUME NEW i \in 1 .. n PROVE SubSeq(s, a, b)[i] = s[m + i]
  <2>1. a + i - 1 = m + i
    BY <1>1
  <2> QED
    BY <1>3, <1>4, <2>1
<1> QED
  BY <1>1, <1>3, <1>4, <1>5

\* A field of the payload, cut from the buffer or from the record.
LEMMA FieldSame ==
  ASSUME NEW buf, NEW len, NEW r, IsRecord(r), Holds(buf, len, r),
         NEW st, st.offset \in Nat, st.width \in Nat, st.offset + st.width <= Len(r) - HdrLen,
         NEW g \in FieldsAt(buf, HdrLen + st.offset, st.width)
  PROVE  /\ FieldOf(st, r) \in Seq(Int) /\ Len(FieldOf(st, r)) = st.width
         /\ g = FieldOf(st, r)
<1>1. PICK o \in Nat, wd \in Nat, n \in Nat :
        o = st.offset /\ wd = st.width /\ n = Len(r) /\ HdrLen <= n /\ o + wd <= n - HdrLen
  BY DEF IsRecord
<1>2. \A i \in 1 .. n : r[i] \in Int /\ buf[i] = r[i]
  <2>1. \A i \in 1 .. Len(r) : r[i] \in Int
    BY ElementOfSeq DEF IsRecord
  <2> QED
    BY <1>1, <2>1 DEF Holds
<1>3. HdrLen = 3
  BY DEF HdrLen
<1> DEFINE p == SubSeq(r, 4, n)
           f == SubSeq(p, o + 1, o + wd)
<1>4. \A i \in 1 .. n - 3 : p[i] = r[3 + i]
  <2>1. PICK m \in Nat : m = n - 3
    BY <1>1, <1>3
  <2>2. \A i \in 1 .. m : r[3 + i] \in Int
    BY <1>2, <2>1
  <2>3. \A i \in 1 .. m : SubSeq(r, 3 + 1, 3 + m)[i] = r[3 + i]
    BY <2>2, SliceOfInts
  <2>4. 3 + 1 = 4 /\ 3 + m = n
    BY <2>1
  <2> QED
    BY <2>1, <2>3, <2>4
<1> HIDE DEF p
<1>5. \A i \in 1 .. wd : /\ o + i \in 1 .. n - 3 /\ 3 + (o + i) \in 1 .. n
                          /\ 3 + o + i = 3 + (o + i)
  <2>1. o + wd <= n - 3
    BY <1>1, <1>3
  <2> QED
    BY <2>1
<1>6. ASSUME NEW i \in 1 .. wd
      PROVE  p[o + i] = r[3 + (o + i)] /\ buf[3 + o + i] = r[3 + (o + i)] /\ r[3 + (o + i)] \in Int
  BY <1>2, <1>4, <1>5
<1>7. f \in Seq(Int) /\ Len(f) = wd /\ \A i \in 1 .. wd : f[i] = p[o + i]
  <2>1. \A i \in 1 .. wd : p[o + i] \in Int
    BY <1>6
  <2> QED
    BY <2>1, SliceOfInts
<1>8. g \in Seq(Int) /\ Len(g) = wd /\ \A i \in 1 .. wd : g[i] = buf[3 + o + i]
  <2>1. g \in FieldsAt(buf, 3 + o, wd)
    BY <1>1, <1>3
  <2>2. PICK stray \in [1 .. wd -> Stray] :
          g = [i \in 1 .. wd |-> IF 3 + o + i <= Cap THEN buf[3 + o + i] ELSE stray[i]]
    BY <2>1 DEF FieldsAt
  <2>3. n <= Cap /\ Cap \in Nat
    BY <1>1, StagesAssumption DEF IsRecord
  <2>4. ASSUME NEW i \in 1 .. wd PROVE 3 + o + i <= Cap
    <3>1. 3 + o + i \in 1 .. n
      BY <1>5
    <3> QED
      BY <2>3, <3>1
  <2>5. \A i \in 1 .. wd : g[i] = buf[3 + o + i]
    BY <2>2, <2>4
  <2>6. g \in [1 .. wd -> Int]
    BY <1>6, <2>2, <2>5
  <2>7. g \in Seq(Int) /\ Len(g) = wd
    BY <2>6, FunIsSeq, Zenon
  <2> QED
    BY <2>5, <2>7
<1>9. f = FieldOf(st, r)
  BY <1>1, <1>3 DEF FieldOf, PayloadOf, p
<1> HIDE DEF f
<1>10. Len(f) = Len(g) /\ \A i \in 1 .. Len(f) : f[i] = g[i]
  BY <1>6, <1>7, <1>8
<1>11. f = g
  BY <1>7, <1>8, <1>10, SeqEqual, Zenon
<1> QED
  BY <1>1, <1>7, <1>9, <1>11

\* The value of a field of one cell or two.
LEMMA WidenedCells ==
  ASSUME NEW field \in Seq(Int), Len(field) \in Widths
  PROVE  /\ Widened(field) = IF Len(field) = 1 THEN <<0, field[1]>> ELSE field
         /\ Widened(field) \in Seq(Int) /\ Len(Widened(field)) = ValueLen
<1>1. CASE Len(field) = 1
  <2> DEFINE z == [i \in 1 .. 1 |-> 0]
  <2>1. z \in Seq(Int) /\ Len(z) = 1 /\ z[1] = 0
    <3>1. z \in Seq({0}) /\ Len(z) = IF 1 <= 0 THEN 0 ELSE 1
      BY ZerosAreSeq
    <3> QED
      BY <3>1, SeqMonotonic
  <2> HIDE DEF z
  <2>2. /\ z \o field \in Seq(Int) /\ Len(z \o field) = Len(z) + Len(field)
        /\ \A i \in 1 .. Len(z) + Len(field) :
             (z \o field)[i] = IF i <= Len(z) THEN z[i] ELSE field[i - Len(z)]
    BY <2>1, ConcatProperties, Zenon
  <2>3. Widened(field) = z \o field
    BY <1>1 DEF Widened, ValueLen, z
  <2> PICK s \in Seq(Int) : s = z \o field
    BY <2>2
  <2> PICK x \in Int : x = field[1]
    <3>1. 1 \in 1 .. Len(field)
      BY <1>1
    <3> QED
      BY <3>1, ElementOfSeq
  <2>4. Len(s) = 2 /\ s[1] = 0 /\ s[2] = x
    <3>1. Len(z) = 1 /\ Len(field) = 1 /\ 1 \in 1 .. 2 /\ 2 \in 1 .. 2
      BY <1>1, <2>1
    <3>2. s[1] = z[1] /\ s[2] = field[2 - 1]
      BY <2>2, <3>1
    <3> QED
      BY <2>1, <2>2, <3>1, <3>2
  <2>5. <<0, x>> \in Seq(Int) /\ Len(<<0, x>>) = 2 /\ <<0, x>>[1] = 0 /\ <<0, x>>[2] = x
    OBVIOUS
  <2> PICK t \in Seq(Int) : t = <<0, x>>
    BY <2>5
  <2>6. Len(s) = Len(t) /\ \A i \in 1 .. Len(s) : s[i] = t[i]
    <3>1. 1 .. 2 = {1, 2}
      OBVIOUS
    <3> QED
      BY <2>4, <2>5, <3>1
  <2>7. s = t
    BY <2>6, SeqEqual
  <2> QED
    BY <1>1, <2>3, <2>4, <2>7 DEF ValueLen
<1>2. CASE Len(field) = 2
  <2> DEFINE z == [i \in 1 .. 0 |-> 0]
  <2>1. z = <<>>
    <3>1. z \in Seq({0}) /\ Len(z) = IF 0 <= 0 THEN 0 ELSE 0
      BY ZerosAreSeq
    <3>2. Len(z) = 0
      BY <3>1
    <3>3. <<>> \in Seq({0}) /\ Len(<<>>) = 0
      OBVIOUS
    <3> PICK s \in Seq({0}) : s = z
      BY <3>1
    <3> PICK t \in Seq({0}) : t = <<>>
      BY <3>3
    <3> HIDE DEF z
    <3>4. Len(s) = Len(t) /\ \A i \in 1 .. Len(s) : s[i] = t[i]
      BY <3>2, <3>3
    <3> QED
      BY <3>4, SeqEqual
  <2>2. Widened(field) = z \o field
    BY <1>2 DEF Widened, ValueLen
  <2>3. <<>> \o field = field
    BY ConcatEmptySeq
  <2> QED
    BY <1>2, <2>1, <2>2, <2>3 DEF ValueLen
<1> QED
  BY <1>1, <1>2 DEF Widths

\* A convert stage has nothing but a sink behind it, and so nothing else has one before it.
LEMMA ConvertsLast ==
  ASSUME chain \in Chain, NEW i \in 1 .. Len(chain), chain[i].kind \notin Sink
  PROVE  Before(i, "convert") = {}
<1>1. Len(chain) \in Nat /\ i # Len(chain)
  BY ChainEndsInSink
<1>2. ASSUME NEW k \in 1 .. i - 1, chain[k].kind = "convert" PROVE FALSE
  <2>1. k \in 1 .. Len(chain) /\ k + 1 # Len(chain)
    BY <1>1
  <2> QED
    BY <1>2, <2>1, ChainAssumption
<1> QED
  BY <1>2 DEF Before

\* Of an extract stage that is itself called with the whole record.
LEMMA SeenExtract ==
  ASSUME chain \in Chain, NEW i \in 1 .. Len(chain), chain[i].kind = "extract",
         ExtractTakes(chain[i]), NEW r, IsRecord(r), CalledWhole(i + 1, r),
         NEW buf, NEW len, Holds(buf, len, AsSeenBy(i, r)),
         NEW x \in Extract(chain[i], buf, len)
  PROVE  x.out = AsSeenBy(i + 1, r)
<1> PICK st : st = chain[i]
  OBVIOUS
<1>1. /\ Len(chain) \in Nat /\ i \in Nat \ {0}
      /\ st.offset \in Nat /\ st.width \in Nat
      /\ Before(i, "convert") = {}
  BY ChainAssumption, ConvertsLast DEF Sink
<1>2. /\ Cut(i, r) = {}
      /\ Before(i + 1, "extract") = Before(i, "extract") \cup {i}
  <2>1. 1 .. (i + 1) - 1 = 1 .. i - 1 \cup {i}
    BY <1>1
  <2>2. Before(i + 1, "extract") = Before(i, "extract") \cup {i}
    BY <2>1 DEF Before
  <2> QED
    BY <2>2 DEF CalledWhole
<1>3. Before(i + 1, "convert") = {}
  <2>1. 1 .. (i + 1) - 1 = 1 .. i - 1 \cup {i}
    BY <1>1
  <2> QED
    BY <1>1, <2>1 DEF Before
<1>4. AsSeenBy(i, r) = r /\ Holds(buf, len, r)
  BY <1>2, SeenUncut
<1>5. HdrPayload(buf) = Len(r) - HdrLen /\ Len(PayloadOf(r)) = Len(r) - HdrLen
  <2>1. buf[3] = r[3]
    <3>1. 3 \in 1 .. len
      BY <1>4 DEF Holds, IsRecord, HdrLen
    <3> QED
      BY <1>4, <3>1 DEF Holds
  <2>2. PICK n \in Nat : n = Len(r) /\ HdrLen <= n
    BY DEF IsRecord
  <2>3. Len(SubSeq(r, HdrLen + 1, n)) = IF HdrLen + 1 <= n THEN n - (HdrLen + 1) + 1 ELSE 0
    <3>1. HdrLen + 1 \in Int /\ n \in Int
      BY DEF HdrLen
    <3> QED
      BY <3>1, SliceIsSeq
  <2> QED
    BY <2>1, <2>2, <2>3 DEF HdrPayload, PayloadOf, IsRecord, HdrLen
<1>6. CASE st.offset + st.width > Len(r) - HdrLen
  <2>1. x.out = Whole(buf, len)
    BY <1>5, <1>6 DEF Extract, Result
  <2>2. Cut(i + 1, r) = {}
    <3>1. ~(st.offset + st.width <= Len(PayloadOf(r)))
      BY <1>1, <1>5, <1>6 DEF IsRecord, HdrLen
    <3> QED
      BY <1>2, <3>1 DEF Cut
  <2> QED
    BY <1>4, <2>1, <2>2, HoldsWhole, SeenUncut
<1>7. CASE ~(st.offset + st.width > Len(r) - HdrLen)
  <2> DEFINE field == FieldOf(st, r)
  <2>1. st.offset + st.width <= Len(r) - HdrLen
    BY <1>1, <1>7 DEF IsRecord, HdrLen
  <2> PICK g \in FieldsAt(buf, HdrLen + st.offset, st.width) : x = Cutout(st, g)
    BY <1>5, <1>7 DEF Extract
  <2>2. /\ field \in Seq(Int) /\ Len(field) = st.width
        /\ g = field
    <3>1. st.offset \in Nat /\ st.width \in Nat /\ Holds(buf, len, r)
      BY <1>1, <1>4
    <3> QED
      BY <2>1, <3>1, FieldSame, Zenon
  <2>3. Cut(i + 1, r) = {i}
    BY <1>2, <1>5, <2>1 DEF Cut
  <2>4. AsSeenBy(i + 1, r) = CellsOf(st, field)
    BY <1>3, <2>3, SeenCut
  <2> HIDE DEF field
  <2>5. x.out = IF st.mode = "numeric" THEN Widened(field) ELSE field
    BY <2>2 DEF Cutout, Result
  <2>6. CASE st.mode = "numeric"
    <3>1. Len(field) \in Widths
      BY <2>2, <2>6 DEF ExtractTakes
    <3>2. Widened(field) = IF Len(field) = 1 THEN <<0, field[1]>> ELSE field
      BY <2>2, <3>1, WidenedCells
    <3>3. Widened(field) = CellsOf(st, field)
      BY <2>6, <3>2 DEF CellsOf
    <3> QED
      BY <2>4, <2>5, <2>6, <3>3
  <2>7. CASE st.mode = "bytes"
    BY <2>4, <2>5, <2>7 DEF CellsOf
  <2> QED
    BY <2>6, <2>7 DEF ExtractTakes
<1> QED
  BY <1>6, <1>7

LEMMA SeenConvert ==
  ASSUME chain \in Chain, NEW i \in 1 .. Len(chain), chain[i].kind = "convert",
         NEW r, IsRecord(r), CalledWhole(i + 1, r),
         NEW buf, NEW len, Holds(buf, len, AsSeenBy(i, r)),
         Convert(chain[i], buf, len) # Dropped
  PROVE  Convert(chain[i], buf, len).out = AsSeenBy(i + 1, r)
<1> PICK st : st = chain[i]
  OBVIOUS
<1>1. /\ Len(chain) \in Nat /\ i \in Nat \ {0} /\ i + 1 = Len(chain)
      /\ st.scale \in Int /\ st.offset \in Int
      /\ Before(i, "convert") = {}
  BY ChainAssumption, ConvertsLast DEF Sink
<1>2. len = ValueLen
  BY DEF Convert
<1> DEFINE cells == AsSeenBy(i, r)
<1>3. /\ cells \in Seq(Int) /\ Len(cells) = 2 /\ buf[1] = cells[1] /\ buf[2] = cells[2]
      /\ cells[1] \in Int /\ cells[2] \in Int
  <2>1. cells \in Seq(Int) /\ Len(cells) = 2 /\ \A k \in 1 .. 2 : buf[k] = cells[k]
    BY <1>2 DEF Holds, ValueLen
  <2>2. 1 \in 1 .. Len(cells) /\ 2 \in 1 .. Len(cells) /\ 1 \in 1 .. 2 /\ 2 \in 1 .. 2
    BY <2>1
  <2> HIDE DEF cells
  <2>3. cells[1] \in Int /\ cells[2] \in Int
    BY <2>1, <2>2, ElementOfSeq
  <2> QED
    BY <2>1, <2>2, <2>3
<1>4. Cut(i, r) # {}
  <2> SUFFICES ASSUME Cut(i, r) = {} PROVE FALSE
    OBVIOUS
  <2>1. cells = r
    BY SeenUncut
  <2> HIDE DEF cells
  <2>2. Len(r) = 2
    BY <1>3, <2>1
  <2> QED
    BY <2>2 DEF IsRecord, HdrLen
<1>5. PICK k : Cut(i, r) = {k}
  <2> PICK k \in Cut(i, r) : TRUE
    BY <1>4
  <2>1. ASSUME NEW a \in Cut(i, r), NEW b \in Cut(i, r), a < b PROVE FALSE
    <3>1. a \in Int /\ b \in Int /\ 1 <= a
      BY <1>1 DEF Cut, Before
    <3>2. a \in 1 .. b - 1
      BY <2>1, <3>1
    <3>3. a \in Cut(b, r)
      BY <3>2 DEF Cut, Before
    <3>4. b \in Before(i + 1, "extract")
      <4>1. b \in 1 .. i - 1 /\ chain[b].kind = "extract"
        BY DEF Cut, Before
      <4>2. b \in 1 .. (i + 1) - 1
        BY <1>1, <4>1
      <4> QED
        BY <4>1, <4>2 DEF Before
    <3> QED
      BY <3>3, <3>4 DEF CalledWhole
  <2>2. ASSUME NEW j \in Cut(i, r) PROVE j = k
    <3>1. j \in Int /\ k \in Int
      BY DEF Cut, Before
    <3> QED
      BY <2>1, <3>1
  <2> QED
    BY <2>2
<1>6. Cut(i + 1, r) = {k} /\ Before(i + 1, "convert") = {i}
  <2>1. 1 .. (i + 1) - 1 = 1 .. i - 1 \cup {i}
    BY <1>1
  <2>2. Before(i + 1, "extract") = Before(i, "extract")
    BY <2>1 DEF Before
  <2>3. Before(i + 1, "convert") = {i}
    BY <1>1, <2>1 DEF Before
  <2> QED
    BY <1>5, <2>2, <2>3 DEF Cut
<1>7. AsSeenBy(i + 1, r) = Converted(st, cells)
  <2>1. cells = CellsOf(chain[k], FieldOf(chain[k], r))
    BY <1>1, <1>5, SeenCut
  <2>2. AsSeenBy(i + 1, r) = Converted(chain[i], CellsOf(chain[k], FieldOf(chain[k], r)))
    BY <1>6, SeenConverted
  <2> HIDE DEF cells
  <2> QED
    BY <2>1, <2>2
<1> HIDE DEF cells
<1> PICK v : v = (cells[1] * Base + cells[2]) * st.scale + st.offset
  OBVIOUS
<1>8. AsSeenBy(i + 1, r) = Double(v) /\ Convert(chain[i], buf, len).out = Double(v)
  BY <1>2, <1>3, <1>7 DEF Converted, Convert, Result
<1> QED
  BY <1>8

\* Every stage but a sink hands on what the next one is to be called with, if no
\* extract stage up to this one was called with a field.
LEMMA SeenStep ==
  ASSUME chain \in Chain, NEW i \in 1 .. Len(chain), chain[i].kind \notin Sink,
         Takes(chain[i]), NEW r, IsRecord(r), CalledWhole(i + 1, r),
         NEW buf, NEW len, Holds(buf, len, AsSeenBy(i, r)),
         NEW x \in Outcomes(chain[i], buf, len) \ {Dropped}
  PROVE  x.out = AsSeenBy(i + 1, r)
<1>1. i \in Nat \ {0} /\ chain[i].kind \in StageKind
  BY ChainEndsInSink
<1>2. Whole(buf, len) = AsSeenBy(i, r)
  BY HoldsWhole
<1>3. CASE chain[i].kind \in {"validate", "byte_match"}
  <2>1. AsSeenBy(i + 1, r) = AsSeenBy(i, r)
    BY <1>1, <1>3, SeenOn
  <2>2. x.out = Whole(buf, len)
    <3>1. CASE chain[i].kind = "validate"
      <4>1. x = Validate(chain[i], buf, len) /\ x # Dropped
        BY <3>1 DEF Outcomes
      <4> QED
        BY <4>1 DEF Validate, Result
    <3>2. CASE chain[i].kind = "byte_match"
      <4>1. x = ByteMatch(chain[i], buf, len) /\ x # Dropped
        BY <3>2 DEF Outcomes
      <4> QED
        BY <4>1 DEF ByteMatch, Result
    <3> QED
      BY <1>3, <3>1, <3>2
  <2> QED
    BY <1>2, <2>1, <2>2 DEF Holds
<1>4. CASE chain[i].kind = "extract"
  <2>1. x \in Extract(chain[i], buf, len) /\ ExtractTakes(chain[i])
    BY <1>4 DEF Outcomes, Takes
  <2> QED
    BY <1>4, <2>1, SeenExtract
<1>5. CASE chain[i].kind = "convert"
  <2>1. x = Convert(chain[i], buf, len) /\ x # Dropped
    BY <1>5 DEF Outcomes
  <2> QED
    BY <1>5, <2>1, SeenConvert
<1> QED
  BY <1>1, <1>3, <1>4, <1>5 DEF StageKind

\* Where no extract stage up to the next one was called with a field, none before was.
LEMMA WholeBefore ==
  ASSUME NEW i \in Nat, NEW r, CalledWhole(i + 1, r)
  PROVE  CalledWhole(i, r)
<1>1. \A k \in 1 .. i - 1 : k \in 1 .. (i + 1) - 1
  OBVIOUS
<1> QED
  BY <1>1 DEF CalledWhole, Before

\* Whatever a stage is given, it hands on cells that fit a scratch buffer.
LEMMA MadeFits ==
  ASSUME chain \in Chain, NEW i \in 1 .. Len(chain), Takes(chain[i]),
         NEW buf, IsScratch(buf), NEW len \in Nat, len <= Cap,
         NEW x \in Outcomes(chain[i], buf, len) \ {Dropped}
  PROVE  x.out \in Seq(Int) /\ Len(x.out) <= Cap
<1> PICK st : st = chain[i]
  OBVIOUS
<1>1. /\ st.kind \in StageKind
      /\ st.kind = "extract" => st.offset \in Nat /\ st.width \in Nat
      /\ st.kind = "convert" => st.scale \in Int /\ st.offset \in Int
      /\ Cap \in Nat /\ ValueLen = 2 /\ 2 <= Cap
  BY ChainAssumption, StagesAssumption DEF ValueLen
<1>2. Whole(buf, len) \in Seq(Int) /\ Len(Whole(buf, len)) = len
  <2>1. \A k \in 1 .. len : buf[k] \in Int
    BY <1>1 DEF IsScratch
  <2>2. \A k \in 1 .. len : buf[0 + k] \in Int
    BY <2>1
  <2>3. SubSeq(buf, 0 + 1, 0 + len) \in Seq(Int) /\ Len(SubSeq(buf, 0 + 1, 0 + len)) = len
    BY <2>2, SliceOfInts
  <2>4. 0 + 1 = 1 /\ 0 + len = len
    OBVIOUS
  <2> QED
    BY <2>3, <2>4 DEF Whole
<1>3. CASE st.kind \in {"validate", "byte_match"}
  <2>1. x.out = Whole(buf, len)
    BY <1>3 DEF Outcomes, Validate, ByteMatch, Result
  <2> QED
    BY <1>2, <2>1
<1>4. CASE st.kind = "extract"
  <2>1. x \in Extract(st, buf, len) /\ ExtractTakes(st)
    BY <1>4 DEF Outcomes, Takes
  <2>2. CASE x = Result(TRUE, Whole(buf, len))
    BY <1>2, <2>2 DEF Result
  <2>3. CASE \E f \in FieldsAt(buf, HdrLen + st.offset, st.width) : x = Cutout(st, f)
    <3> PICK f \in FieldsAt(buf, HdrLen + st.offset, st.width) : x = Cutout(st, f)
      BY <2>3
    <3> PICK n \in Nat, from \in Nat : n = st.width /\ from = HdrLen + st.offset
      BY <1>1, <1>4 DEF HdrLen
    <3>1. PICK stray \in [1 .. n -> Stray] :
            f = [k \in 1 .. n |-> IF from + k <= Cap THEN buf[from + k] ELSE stray[k]]
      BY DEF FieldsAt
    <3>2. ASSUME NEW k \in 1 .. n PROVE f[k] \in Int
      <4>1. from + k <= Cap => buf[from + k] \in Int
        BY <1>1 DEF IsScratch
      <4>2. stray[k] \in Int
        BY StagesAssumption
      <4> QED
        BY <3>1, <4>1, <4>2
    <3>3. f \in Seq(Int) /\ Len(f) = n
      <4>1. f \in [1 .. n -> Int]
        BY <3>1, <3>2
      <4> QED
        BY <4>1, FunIsSeq, Zenon
    <3>4. CASE st.mode = "numeric"
      <4>1. x.out = Widened(f) /\ Len(f) \in Widths
        BY <2>1, <3>3, <3>4 DEF Cutout, Result, ExtractTakes
      <4>2. Widened(f) \in Seq(Int) /\ Len(Widened(f)) = ValueLen
        BY <3>3, <4>1, WidenedCells
      <4> QED
        BY <1>1, <4>1, <4>2
    <3>5. CASE st.mode = "bytes"
      <4>1. x.out = f /\ n <= Cap
        BY <1>1, <2>1, <3>5 DEF Cutout, Result, ExtractTakes
      <4> QED
        BY <3>3, <4>1
    <3> QED
      BY <2>1, <3>4, <3>5 DEF ExtractTakes
  <2> QED
    BY <2>1, <2>2, <2>3 DEF Extract
<1>5. CASE st.kind = "convert"
  <2>1. x = Convert(st, buf, len) /\ x # Dropped
    BY <1>5 DEF Outcomes
  <2> PICK v : v = (buf[1] * Base + buf[2]) * st.scale + st.offset
    OBVIOUS
  <2>2. buf[1] \in Int /\ buf[2] \in Int
    BY <1>1 DEF IsScratch
  <2>3. v \in Int
    BY <1>1, <1>5, <2>2 DEF Base
  <2>4. x.out = Double(v)
    BY <2>1 DEF Convert, Result
  <2>5. Double(v) \in [1 .. 2 -> Int]
    BY <2>3 DEF Double, ValueLen
  <2>6. Double(v) \in Seq(Int) /\ Len(Double(v)) = 2
    BY <2>5, FunIsSeq, Zenon
  <2> QED
    BY <1>1, <2>4, <2>6
<1>6. CASE st.kind \in Sink
  <2>1. x = Consumed
    BY <1>6 DEF Sink, Outcomes, NullSink, DumpBinary, DumpText, ForwardUdp
  <2>2. x.out = <<>>
    BY <2>1 DEF Consumed, Result
  <2> QED
    BY <1>1, <2>2
<1> QED
  BY <1>1, <1>3, <1>4, <1>5, <1>6 DEF StageKind

\* A header in front of a payload.
Headed(a, b, p) == <<a, b, Len(p)>> \o p

LEMMA HeadedCells ==
  ASSUME NEW a \in Int, NEW b \in Int, NEW p \in Seq(Int)
  PROVE  /\ Headed(a, b, p) \in Seq(Int)
         /\ Len(Headed(a, b, p)) = HdrLen + Len(p) /\ Len(p) \in Nat
         /\ Headed(a, b, p)[1] = a /\ Headed(a, b, p)[2] = b /\ Headed(a, b, p)[3] = Len(p)
         /\ \A i \in 1 .. Len(p) : Headed(a, b, p)[HdrLen + i] = p[i]
<1> DEFINE s == Headed(a, b, p)
<1>1. PICK n \in Nat : n = Len(p)
  BY LenProperties
<1> DEFINE h == <<a, b, n>>
<1>2. h \in Seq(Int) /\ Len(h) = 3 /\ h[1] = a /\ h[2] = b /\ h[3] = n
  OBVIOUS
<1>3. s = h \o p
  BY <1>1 DEF Headed
<1> HIDE DEF h, s
<1>4. /\ h \o p \in Seq(Int) /\ Len(h \o p) = Len(h) + Len(p)
      /\ \A i \in 1 .. Len(h) + Len(p) :
           (h \o p)[i] = IF i <= Len(h) THEN h[i] ELSE p[i - Len(h)]
  BY <1>2, ConcatProperties, Zenon
<1>5. s \in Seq(Int) /\ Len(s) = 3 + n
  BY <1>1, <1>2, <1>3, <1>4
<1>6. \A i \in 1 .. 3 + n : s[i] = IF i <= 3 THEN h[i] ELSE p[i - 3]
  BY <1>1, <1>2, <1>3, <1>4
<1>7. ASSUME NEW i \in 1 .. n PROVE s[3 + i] = p[i]
  <2>1. 3 + i \in 1 .. 3 + n /\ ~(3 + i <= 3) /\ (3 + i) - 3 = i
    OBVIOUS
  <2> QED
    BY <1>6, <2>1
<1>8. s[1] = a /\ s[2] = b /\ s[3] = n
  BY <1>2, <1>6
<1> QED
  BY <1>1, <1>5, <1>7, <1>8 DEF HdrLen, s

-------------------------------------------------------------------------------
\* The record of a worker is in the buffer that the next stage reads.

\* CalledWhole and AsSeenBy, said of any chain.
WholeIn(c, i, r) ==
  \A k \in {k \in 1 .. i - 1 : c[k].kind = "extract"} :
    {l \in {l \in 1 .. k - 1 : c[l].kind = "extract"} :
       c[l].offset + c[l].width <= Len(PayloadOf(r))} = {}

SeenIn(c, i, r) ==
  LET before(kind) == {k \in 1 .. i - 1 : c[k].kind = kind}
      cut == {k \in before("extract") : c[k].offset + c[k].width <= Len(PayloadOf(r))}
  IN  IF cut = {} THEN r
      ELSE LET st    == c[CHOOSE k \in cut : TRUE]
               field == FieldOf(st, r)
               cells == IF st.mode = "bytes" THEN field
                        ELSE IF Len(field) = 1 THEN <<0, field[1]>> ELSE field
           IN  IF before("convert") = {} THEN cells
               ELSE LET d == c[CHOOSE k \in before("convert") : TRUE]
                    IN  Double((cells[1] * Base + cells[2]) * d.scale + d.offset)

LEMMA SeenInChain ==
  ASSUME NEW i, NEW r
  PROVE  AsSeenBy(i, r) = SeenIn(chain, i, r)
BY DEF AsSeenBy, SeenIn, Cut, Before

LEMMA WholeInChain ==
  ASSUME NEW i, NEW r
  PROVE  CalledWhole(i, r) <=> WholeIn(chain, i, r)
BY Zenon DEF CalledWhole, WholeIn, Cut, Before

\* Some cells are in the buffer that stage i reads, those of the record if they can be
\* told from it.
HoldsSeen(c, buf, len, i, r) ==
  \E cells : Holds(buf, len, cells) /\ (WholeIn(c, i, r) => cells = SeenIn(c, i, r))

\* What ring_output makes of a record.
IsBlob(c, b, r) ==
  /\ b[2] \in Nat
  /\ \E p \in Seq(Int) : /\ b = Headed(Magic, b[2], p)
                         /\ WholeIn(c, Len(c), r) => p = SeenIn(c, Len(c), r)

\* A worker's buffers and its place in the chain.
Carries(c, s, j) ==
  /\ j.step \in {"process", "count", "route", "enqueue", "enqueued"} => IsRecord(j.record)
  /\ j.step = "process" => Holds(s[0], j.len, j.record)
  /\ j.step \in {"count", "route"} /\ c[j.at].kind \notin Sink =>
       HoldsSeen(c, s[Buffer(j.at + 1)], j.len, j.at + 1, j.record)
  /\ j.step = "enqueue" => IsBlob(c, j.blob, j.record)

Buffers(s) == DOMAIN s = 0 .. 1 /\ \A b \in 0 .. 1 : IsScratch(s[b])

CarryInv ==
  /\ \A i \in 1 .. Len(chain) : Takes(chain[i])
  /\ DOMAIN scratch = Worker /\ \A w \in Worker : Buffers(scratch[w])
  /\ \A w \in Worker : Carries(chain, scratch[w], job[w])

LEMMA ReadyHolds ==
  ASSUME StagesType, CarryInv, NEW w \in Worker, Ready(w)
  PROVE  /\ IsRecord(job[w].record)
         /\ HoldsSeen(chain, scratch[w][Buffer(At(w))], job[w].len, At(w), job[w].record)
<1>1. /\ job[w].step = "process" \/ chain[job[w].at].kind \notin Sink
      /\ job[w].step = "process" => At(w) = 1
      /\ job[w].step # "process" => job[w].step = "route" /\ At(w) = job[w].at + 1
  BY ReadyCalls
<1>2. Carries(chain, scratch[w], job[w])
  BY DEF CarryInv
<1>3. CASE job[w].step = "process"
  <2>1. Buffer(1) = 0
    BY DEF Buffer
  <2>2. job[w].record = SeenIn(chain, 1, job[w].record)
    BY SeenFirst, SeenInChain
  <2>3. IsRecord(job[w].record) /\ Holds(scratch[w][0], job[w].len, job[w].record)
    BY <1>2, <1>3 DEF Carries
  <2>4. HoldsSeen(chain, scratch[w][0], job[w].len, 1, job[w].record)
    BY <2>2, <2>3 DEF HoldsSeen
  <2> QED
    BY <1>1, <1>3, <2>1, <2>3, <2>4
<1>4. CASE job[w].step # "process"
  BY <1>1, <1>2, <1>4 DEF Carries
<1> QED
  BY <1>3, <1>4

\* One worker's buffers at a time.
LEMMA CarryOn ==
  ASSUME CarryInv, NEW w \in Worker, Moves(w),
         DOMAIN scratch' = Worker, \A v \in Worker \ {w} : scratch'[v] = scratch[v],
         Buffers(scratch'[w]), Carries(chain, scratch'[w], job'[w])
  PROVE  CarryInv'
<1>1. ASSUME NEW v \in Worker
      PROVE  Buffers(scratch'[v]) /\ Carries(chain, scratch'[v], job'[v])
  <2>1. CASE v = w
    BY <2>1
  <2>2. CASE v # w
    BY <2>2 DEF CarryInv, Moves
  <2> QED
    BY <2>1, <2>2
<1>2. chain' = chain
  BY DEF Moves
<1> QED
  BY <1>1, <1>2 DEF CarryInv

LEMMA CarryStill ==
  ASSUME CarryInv, NEW w \in Worker, Moves(w), scratch' = scratch,
         Carries(chain, scratch[w], job'[w])
  PROVE  CarryInv'
BY CarryOn DEF CarryInv

LEMMA TakeCarries ==
  ASSUME StagesInv, CarryInv, NEW w \in Worker, NEW raw \in Raw, TakeRecord(w, raw)
  PROVE  CarryInv' /\ Moves(w) /\ job'[w].step # "enqueue"
<1> DEFINE record == <<raw.magic, totals["records_in"] + 1, Len(raw.payload)>> \o raw.payload
<1>1. StagesType
  BY DEF StagesInv
<1>2. /\ raw.magic \in Int /\ totals["records_in"] + 1 \in Int /\ raw.payload \in Seq(Int)
      /\ HdrLen + Len(raw.payload) <= Cap
  BY SMTT(30), <1>1, CountersAreNat, StagesAssumption
<1> DEFINE r == Headed(raw.magic, totals["records_in"] + 1, raw.payload)
<1>3. r = record
  BY DEF Headed
<1> HIDE DEF record
<1>4. /\ r \in Seq(Int) /\ Len(r) = HdrLen + Len(raw.payload) /\ Len(raw.payload) \in Nat
      /\ r[3] = Len(raw.payload)
  BY <1>2, HeadedCells
<1> HIDE DEF r
<1>5. IsRecord(r) /\ Len(r) \in Nat /\ Len(r) <= Cap
  BY <1>2, <1>4, StagesAssumption DEF IsRecord, HdrLen
<1>6. /\ job' = [job EXCEPT ![w] = [step |-> "process", record |-> r, at |-> 1,
                                     len |-> Len(r), flagged |-> FALSE]]
      /\ scratch' = [scratch EXCEPT ![w][0] = Overwrite(@, r)]
      /\ chain' = chain
  BY <1>3 DEF TakeRecord, record
<1>7. /\ DOMAIN scratch' = Worker /\ \A v \in Worker \ {w} : scratch'[v] = scratch[v]
      /\ Buffers(scratch'[w])
      /\ scratch'[w][0] = Overwrite(scratch[w][0], r)
  <2>1. /\ DOMAIN scratch' = Worker /\ \A v \in Worker \ {w} : scratch'[v] = scratch[v]
        /\ DOMAIN scratch'[w] = 0 .. 1
        /\ scratch'[w][0] = Overwrite(scratch[w][0], r) /\ scratch'[w][1] = scratch[w][1]
    BY <1>6 DEF CarryInv, Buffers
  <2>2. IsScratch(scratch[w][0]) /\ IsScratch(scratch[w][1])
    BY DEF CarryInv, Buffers
  <2>3. IsScratch(scratch'[w][0]) /\ IsScratch(scratch'[w][1])
    BY <1>4, <2>1, <2>2, OverwrittenScratch
  <2> QED
    BY <2>1, <2>3 DEF Buffers
<1>8. /\ job'[w] = [step |-> "process", record |-> r, at |-> 1, len |-> Len(r), flagged |-> FALSE]
      /\ DOMAIN job' = Worker /\ \A v \in Worker \ {w} : job'[v] = job[v]
  BY <1>1, <1>6 DEF StagesType
<1>9. Holds(scratch'[w][0], Len(r), r)
  BY <1>4, <1>5, <1>7, HoldsOverwritten
<1>10. Carries(chain, scratch'[w], job'[w]) /\ job'[w].step # "enqueue"
  <2>1. job'[w].step = "process" /\ job'[w].record = r /\ job'[w].len = Len(r)
    BY <1>8
  <2> QED
    BY <1>5, <1>9, <2>1 DEF Carries
<1>11. Moves(w)
  <2>1. 1 \in 1 .. Len(chain)
    BY <1>1, ChainEndsInSink DEF StagesType
  <2>2. PlainJob(job'[w])
    BY <1>5, <1>8, <2>1 DEF PlainJob
  <2> QED
    BY <1>6, <1>8, <2>2 DEF Moves, JobFits
<1> QED
  BY <1>7, <1>10, <1>11, CarryOn

LEMMA ProcessCarries ==
  ASSUME StagesInv, CarryInv, NEW w \in Worker, Process(w)
  PROVE  CarryInv' /\ Moves(w) /\ job'[w].step # "enqueue"
<1>1. StagesType /\ chain \in Chain
  BY DEF StagesInv, StagesType
<1> PICK i : i = At(w)
  OBVIOUS
<1>2. /\ i \in 1 .. Len(chain) /\ Moves(w)
      /\ job'[w].at = i
      /\ job'[w].step = IF Fields(chain[i]) # {} THEN "count" ELSE "route"
  BY <1>1, ProcessMoves
<1>3. PICK x \in MayMake(w) \ {Dropped} :
        /\ scratch' = [scratch EXCEPT ![w][Buffer(i + 1)] = Overwrite(@, x.out)]
        /\ job' = [job EXCEPT ![w] = [step |-> IF Fields(chain[i]) # {} THEN "count" ELSE "route",
                                      record |-> @.record, at |-> i, flagged |-> x.flagged,
                                      len |-> IF chain[i].kind \in Sink THEN @.len
                                              ELSE Len(x.out)]]
  BY DEF Process
<1>4. Ready(w) /\ job[w].record = job[w].record
  BY DEF Process
<1> DEFINE r == job[w].record
<1>5. IsRecord(r) /\ HoldsSeen(chain, scratch[w][Buffer(i)], job[w].len, i, r)
  BY <1>1, <1>4, ReadyHolds
<1>6. /\ job'[w].record = r
      /\ chain[i].kind \notin Sink => job'[w].len = Len(x.out)
  BY <1>1, <1>3 DEF StagesType
<1>7. Buffer(i + 1) \in 0 .. 1
  BY <1>1, <1>2, ChainEndsInSink DEF Buffer
<1> PICK len : len = job[w].len
  OBVIOUS
<1> PICK buf : buf = scratch[w][Buffer(i)]
  OBVIOUS
<1>8. x \in Outcomes(chain[i], buf, len) \ {Dropped} /\ Takes(chain[i])
  BY <1>2 DEF MayMake, CarryInv
<1> PICK cells : /\ Holds(buf, len, cells)
                 /\ WholeIn(chain, i, r) => cells = SeenIn(chain, i, r)
  BY <1>5 DEF HoldsSeen
<1>9. x.out \in Seq(Int) /\ Len(x.out) <= Cap
  <2>1. Buffer(i) \in 0 .. 1
    BY <1>1, <1>2, ChainEndsInSink DEF Buffer
  <2>2. IsScratch(buf)
    BY <2>1 DEF CarryInv, Buffers
  <2>3. len \in Nat /\ len <= Cap
    BY DEF Holds
  <2> QED
    BY <1>1, <1>2, <1>8, <2>2, <2>3, MadeFits
<1>10. /\ DOMAIN scratch' = Worker /\ \A v \in Worker \ {w} : scratch'[v] = scratch[v]
       /\ Buffers(scratch'[w])
       /\ scratch'[w][Buffer(i + 1)] = Overwrite(scratch[w][Buffer(i + 1)], x.out)
  <2> PICK b \in 0 .. 1 : b = Buffer(i + 1)
    BY <1>7
  <2>1. /\ DOMAIN scratch' = Worker /\ \A v \in Worker \ {w} : scratch'[v] = scratch[v]
        /\ DOMAIN scratch'[w] = 0 .. 1
        /\ scratch'[w][b] = Overwrite(scratch[w][b], x.out)
        /\ \A a \in 0 .. 1 : a # b => scratch'[w][a] = scratch[w][a]
    BY <1>3 DEF CarryInv, Buffers
  <2>2. \A a \in 0 .. 1 : IsScratch(scratch[w][a])
    BY DEF CarryInv, Buffers
  <2>3. IsScratch(scratch'[w][b])
    BY <1>9, <2>1, <2>2, OverwrittenScratch
  <2>4. \A a \in 0 .. 1 : IsScratch(scratch'[w][a])
    BY <2>1, <2>2, <2>3
  <2> QED
    BY <2>1, <2>4 DEF Buffers
<1>11. ASSUME chain[i].kind \notin Sink
       PROVE  HoldsSeen(chain, scratch'[w][Buffer(i + 1)], job'[w].len, i + 1, r)
  <2>1. Holds(Overwrite(scratch[w][Buffer(i + 1)], x.out), Len(x.out), x.out)
    BY <1>9, HoldsOverwritten
  <2>2. ASSUME WholeIn(chain, i + 1, r) PROVE x.out = SeenIn(chain, i + 1, r)
    <3> HIDE DEF r
    <3>1. CalledWhole(i + 1, r) /\ i \in Nat
      BY <1>1, <1>2, <2>2, ChainEndsInSink, WholeInChain
    <3>2. CalledWhole(i, r)
      BY <3>1, WholeBefore
    <3>3. cells = AsSeenBy(i, r)
      BY <3>2, SeenInChain, WholeInChain
    <3>4. Holds(buf, len, AsSeenBy(i, r))
      BY <3>3
    <3>5. x.out = AsSeenBy(i + 1, r)
      BY <1>1, <1>2, <1>5, <1>8, <1>11, <3>1, <3>4, SeenStep
    <3> QED
      BY <3>5, SeenInChain
  <2> QED
    BY <1>6, <1>10, <1>11, <2>1, <2>2 DEF HoldsSeen
<1>12. Carries(chain, scratch'[w], job'[w])
  <2> PICK j : j = job'[w]
    OBVIOUS
  <2>1. j.step \in {"count", "route"} /\ j.at = i /\ j.record = r
    BY <1>2, <1>6
  <2> HIDE DEF r
  <2> QED
    BY <1>5, <1>11, <2>1 DEF Carries
<1> QED
  BY <1>2, <1>10, <1>12, CarryOn

LEMMA CountOutcomeCarries ==
  ASSUME StagesInv, CarryInv, NEW w \in Worker, CountOutcome(w)
  PROVE  CarryInv' /\ Moves(w) /\ job'[w].step # "enqueue"
<1>1. StagesType
  BY DEF StagesInv
<1>2. /\ job[w].step = "count"
      /\ job' = [job EXCEPT ![w].step = "route"]
      /\ chain' = chain /\ scratch' = scratch
  BY DEF CountOutcome
<1>3. PlainJob(job[w]) \/ OutJob(job[w])
  BY <1>1, <1>2 DEF StagesType, JobFits, RefusedJob, Idle
<1>4. /\ Moves(w) /\ job'[w].step = "route" /\ job'[w].at = job[w].at
      /\ job'[w].record = job[w].record /\ job'[w].len = job[w].len
  BY <1>1, <1>2, <1>3, StepMoves
<1>5. Carries(chain, scratch[w], job'[w])
  <2>1. Carries(chain, scratch[w], job[w])
    BY DEF CarryInv
  <2> QED
    BY <1>2, <1>4, <2>1 DEF Carries
<1> QED
  BY <1>2, <1>4, <1>5, CarryStill

LEMMA EndCarries ==
  ASSUME StagesType, CarryInv, NEW w \in Worker, chain' = chain, scratch' = scratch,
         NEW j, job' = [job EXCEPT ![w] = j], JobFits(j), j.step \in {"idle", "refused"}
  PROVE  CarryInv' /\ Moves(w) /\ job'[w].step # "enqueue"
<1>1. job'[w] = j /\ Moves(w)
  BY DEF StagesType, Moves
<1>2. Carries(chain, scratch[w], job'[w])
  BY <1>1 DEF Carries
<1> QED
  BY <1>1, <1>2, CarryStill

LEMMA FrameCarries ==
  ASSUME StagesInv, CarryInv, NEW w \in Worker, FrameRecord(w), next_seq \in Nat
  PROVE  /\ CarryInv' /\ Moves(w)
         /\ job'[w].step = "enqueue" /\ job'[w].blob[2] = next_seq
         /\ IsBlob(chain, job'[w].blob, job'[w].record)
<1>1. StagesType
  BY DEF StagesInv
<1>2. /\ Ready(w) /\ chain[At(w)].kind = "ring_output"
      /\ job' = [job EXCEPT ![w] = [step |-> "enqueue", at |-> At(w), record |-> job[w].record,
                                    len |-> job[w].len, flagged |-> FALSE,
                                    blob |-> <<Magic, next_seq, job[w].len>> \o Given(w)]]
      /\ chain' = chain /\ scratch' = scratch
  BY DEF FrameRecord, OutStage
<1>3. At(w) \in 1 .. Len(chain) /\ job[w].len \in Nat
  BY <1>1, <1>2, ReadyCalls DEF PlainJob
<1>4. At(w) = Len(chain)
  BY <1>1, <1>2, <1>3, OutIsLast
<1>5. /\ IsRecord(job[w].record)
      /\ HoldsSeen(chain, scratch[w][Buffer(At(w))], job[w].len, Len(chain), job[w].record)
  BY <1>1, <1>2, <1>4, ReadyHolds
<1> PICK p : /\ Holds(scratch[w][Buffer(At(w))], job[w].len, p)
             /\ WholeIn(chain, Len(chain), job[w].record) =>
                  p = SeenIn(chain, Len(chain), job[w].record)
  BY <1>5 DEF HoldsSeen
<1>6. Given(w) = p /\ p \in Seq(Int) /\ job[w].len = Len(p)
  BY <1>5, HoldsWhole DEF Given, Holds
<1> DEFINE b == Headed(Magic, next_seq, p)
<1>7. /\ job'[w] = [step |-> "enqueue", at |-> At(w), record |-> job[w].record,
                    len |-> job[w].len, flagged |-> FALSE, blob |-> b]
      /\ DOMAIN job' = Worker /\ \A v \in Worker \ {w} : job'[v] = job[v]
  BY <1>1, <1>2, <1>6 DEF StagesType, Headed
<1>8. b[2] = next_seq
  BY <1>6, HeadedCells, StagesAssumption
<1>9. IsBlob(chain, b, job[w].record)
  BY <1>6, <1>8 DEF IsBlob
<1> HIDE DEF b
<1>10. /\ job'[w].step = "enqueue" /\ job'[w].blob = b /\ job'[w].record = job[w].record
       /\ job'[w].at = At(w) /\ job'[w].len = job[w].len /\ job'[w].flagged = FALSE
  BY <1>7
<1>11. Moves(w)
  <2> PICK j : j = job'[w]
    OBVIOUS
  <2>1. OutJob(j)
    BY <1>2, <1>3, <1>7, <1>10 DEF OutJob
  <2> QED
    BY <1>2, <1>7, <2>1 DEF Moves, JobFits
<1>12. Carries(chain, scratch[w], job'[w])
  BY <1>5, <1>9, <1>10 DEF Carries
<1> QED
  BY <1>2, <1>8, <1>9, <1>10, <1>11, <1>12, CarryStill

LEMMA EnqueueCarries ==
  ASSUME StagesInv, CarryInv, NEW w \in Worker,
         \/ job[w].step = "enqueue" /\ job' = [job EXCEPT ![w].step = "enqueued"]
         \/ job[w].step = "enqueued" /\ job' = [job EXCEPT ![w].step = "count"],
         chain' = chain, scratch' = scratch
  PROVE  CarryInv' /\ Moves(w) /\ job'[w].step \in {"enqueued", "count"}
<1>1. StagesType
  BY DEF StagesInv
<1>2. OutJob(job[w])
  BY <1>1 DEF StagesType, JobFits, PlainJob, RefusedJob, Idle
<1>3. /\ Moves(w) /\ job'[w].step \in {"enqueued", "count"} /\ job'[w].at = job[w].at
      /\ job'[w].record = job[w].record
  BY <1>1, <1>2, StepMoves
<1>4. Carries(chain, scratch[w], job[w]) /\ chain[job[w].at].kind \in Sink
  BY <1>2 DEF CarryInv, OutJob, Sink
<1>5. Carries(chain, scratch[w], job'[w])
  BY <1>3, <1>4 DEF Carries
<1> QED
  BY <1>3, <1>5, CarryStill

\* The numbers of ring_output's records, in hand or on the ring.
RingInv ==
  /\ next_seq \in Nat
  /\ \A k \in 1 .. Len(sent) :
       IsBlob(chain, sent[k].blob, sent[k].record) /\ sent[k].blob[2] < next_seq
  /\ \A k, l \in 1 .. Len(sent) : sent[k].blob[2] = sent[l].blob[2] => k = l
  /\ \A v \in Worker : job[v].step = "enqueue" =>
       /\ job[v].blob[2] \in Nat /\ job[v].blob[2] < next_seq
       /\ \A k \in 1 .. Len(sent) : sent[k].blob[2] # job[v].blob[2]
  /\ \A u, v \in Worker :
       /\ job[u].step = "enqueue" /\ job[v].step = "enqueue"
       /\ job[u].blob[2] = job[v].blob[2]
       => u = v

LEMMA RingKept ==
  ASSUME RingInv, NEW w \in Worker, Moves(w), job'[w].step # "enqueue",
         sent' = sent, next_seq' = next_seq
  PROVE  RingInv'
<1>1. chain' = chain
  BY DEF Moves
<1>2. \A v \in Worker : job'[v].step = "enqueue" => job'[v] = job[v]
  BY DEF Moves
<1> QED
  BY <1>1, <1>2 DEF RingInv

LEMMA FrameKeepsRing ==
  ASSUME StagesInv, CarryInv, RingInv, NEW w \in Worker, FrameRecord(w)
  PROVE  CarryInv' /\ RingInv'
<1>1. next_seq \in Nat
  BY DEF RingInv
<1>2. /\ CarryInv' /\ Moves(w)
      /\ job'[w].step = "enqueue" /\ job'[w].blob[2] = next_seq
  BY <1>1, FrameCarries
<1>3. /\ next_seq' = next_seq + 1 /\ sent' = sent /\ chain' = chain
      /\ \A v \in Worker \ {w} : job'[v] = job[v]
  BY <1>2 DEF FrameRecord, Moves
<1>4. \A k \in 1 .. Len(sent) : /\ IsBlob(chain, sent[k].blob, sent[k].record)
                                /\ sent[k].blob[2] \in Nat
                                /\ sent[k].blob[2] < next_seq /\ sent[k].blob[2] < next_seq + 1
                                /\ sent[k].blob[2] # next_seq
  BY <1>1 DEF RingInv, IsBlob
<1>5. ASSUME NEW v \in Worker, job'[v].step = "enqueue"
      PROVE  /\ job'[v].blob[2] \in Nat /\ job'[v].blob[2] < next_seq + 1
             /\ v # w => job'[v].blob[2] # next_seq
             /\ \A k \in 1 .. Len(sent) : sent[k].blob[2] # job'[v].blob[2]
  <2>1. CASE v = w
    BY <1>1, <1>2, <1>4, <2>1
  <2>2. CASE v # w
    <3>1. job'[v] = job[v]
      BY <1>3, <2>2
    <3>2. /\ job[v].blob[2] \in Nat /\ job[v].blob[2] < next_seq
          /\ \A k \in 1 .. Len(sent) : sent[k].blob[2] # job[v].blob[2]
      BY <1>5, <3>1 DEF RingInv
    <3> QED
      BY <1>1, <2>2, <3>1, <3>2
  <2> QED
    BY <2>1, <2>2
<1>6. ASSUME NEW u \in Worker, NEW v \in Worker,
             job'[u].step = "enqueue", job'[v].step = "enqueue",
             job'[u].blob[2] = job'[v].blob[2]
      PROVE  u = v
  <2>1. CASE u # w /\ v # w
    <3>1. job'[u] = job[u] /\ job'[v] = job[v]
      BY <1>3, <2>1
    <3> QED
      BY <1>6, <3>1 DEF RingInv
  <2>2. CASE u = w \/ v = w
    BY <1>2, <1>5, <1>6, <2>2
  <2> QED
    BY <2>1, <2>2
<1>7. RingInv'
  BY <1>1, <1>3, <1>4, <1>5, <1>6 DEF RingInv
<1> QED
  BY <1>2, <1>7

LEMMA EnqueueKeepsRing ==
  ASSUME StagesInv, CarryInv, RingInv, NEW w \in Worker, EnqueueRecord(w)
  PROVE  CarryInv' /\ RingInv'
<1> DEFINE e == [blob |-> job[w].blob, record |-> job[w].record]
<1>1. /\ job[w].step = "enqueue" /\ job' = [job EXCEPT ![w].step = "enqueued"]
      /\ sent' = Append(sent, e) /\ next_seq' = next_seq
      /\ chain' = chain /\ scratch' = scratch
  BY DEF EnqueueRecord
<1>2. CarryInv' /\ Moves(w)
  BY <1>1, EnqueueCarries
<1>3. \A v \in Worker : job'[v].step = "enqueue" => v # w /\ job'[v] = job[v]
  <2>1. job'[w].step = "enqueued"
    <3>1. OutJob(job[w])
      BY <1>1 DEF StagesInv, StagesType, JobFits, PlainJob, RefusedJob, Idle
    <3> QED
      BY <1>1, <3>1, StepMoves DEF StagesInv
  <2> QED
    BY <1>2, <2>1 DEF Moves
<1>4. IsBlob(chain, job[w].blob, job[w].record)
  BY <1>1 DEF CarryInv, Carries
<1>5. /\ Len(sent) \in Nat /\ Len(sent') = Len(sent) + 1
      /\ \A k \in 1 .. Len(sent) : sent'[k] = sent[k]
      /\ sent'[Len(sent) + 1] = e
  <2> DEFINE S == {sent[k] : k \in 1 .. Len(sent)} \cup {e}
  <2>1. sent \in Seq(S) /\ e \in S
    BY SeqMonotonic DEF StagesInv, StagesType, SentIsSeq
  <2> HIDE DEF S, e
  <2> QED
    BY <1>1, <2>1, AppendProperties, LenProperties
<1> PICK n \in Nat : n = Len(sent)
  BY <1>5
<1>6. ASSUME NEW k \in 1 .. n + 1
      PROVE  \/ k \in 1 .. n /\ sent'[k] = sent[k]
             \/ k = n + 1 /\ sent'[k] = e
  BY <1>5
<1>7. e.blob = job[w].blob /\ e.record = job[w].record
  OBVIOUS
<1> HIDE DEF e
<1>8. /\ job[w].blob[2] \in Nat /\ job[w].blob[2] < next_seq
      /\ \A k \in 1 .. n : sent[k].blob[2] # job[w].blob[2]
  BY <1>1 DEF RingInv
<1>9. \A k \in 1 .. n + 1 :
        IsBlob(chain, sent'[k].blob, sent'[k].record) /\ sent'[k].blob[2] < next_seq
  <2>1. \A k \in 1 .. n :
          IsBlob(chain, sent[k].blob, sent[k].record) /\ sent[k].blob[2] < next_seq
    BY DEF RingInv
  <2> QED
    BY <1>4, <1>6, <1>7, <1>8, <2>1
<1>10. \A k, l \in 1 .. n + 1 : sent'[k].blob[2] = sent'[l].blob[2] => k = l
  <2>1. \A k, l \in 1 .. n : sent[k].blob[2] = sent[l].blob[2] => k = l
    BY DEF RingInv
  <2>2. ASSUME NEW k \in 1 .. n + 1, NEW l \in 1 .. n + 1, sent'[k].blob[2] = sent'[l].blob[2]
        PROVE  k = l
    <3>1. CASE k \in 1 .. n /\ sent'[k] = sent[k]
      <4>1. CASE l \in 1 .. n /\ sent'[l] = sent[l]
        BY <2>1, <2>2, <3>1, <4>1
      <4>2. CASE l = n + 1 /\ sent'[l] = e
        BY <1>7, <1>8, <2>2, <3>1, <4>2
      <4> QED
        BY <1>6, <4>1, <4>2
    <3>2. CASE k = n + 1 /\ sent'[k] = e
      <4>1. CASE l \in 1 .. n /\ sent'[l] = sent[l]
        BY <1>7, <1>8, <2>2, <3>2, <4>1
      <4>2. CASE l = n + 1 /\ sent'[l] = e
        BY <3>2, <4>2
      <4> QED
        BY <1>6, <4>1, <4>2
    <3> QED
      BY <1>6, <3>1, <3>2
  <2> QED
    BY <2>2
<1>11. ASSUME NEW v \in Worker, job'[v].step = "enqueue"
       PROVE  /\ job'[v].blob[2] \in Nat /\ job'[v].blob[2] < next_seq
              /\ \A k \in 1 .. n + 1 : sent'[k].blob[2] # job'[v].blob[2]
  <2>1. v # w /\ job'[v] = job[v] /\ job[v].step = "enqueue"
    BY <1>3, <1>11
  <2>2. job[v].blob[2] # job[w].blob[2]
    BY <1>1, <2>1 DEF RingInv
  <2>3. /\ job[v].blob[2] \in Nat /\ job[v].blob[2] < next_seq
        /\ \A k \in 1 .. n : sent[k].blob[2] # job[v].blob[2]
    BY <2>1 DEF RingInv
  <2> QED
    BY <1>6, <1>7, <2>1, <2>2, <2>3
<1>12. \A u, v \in Worker :
         /\ job'[u].step = "enqueue" /\ job'[v].step = "enqueue"
         /\ job'[u].blob[2] = job'[v].blob[2]
         => u = v
  BY <1>3 DEF RingInv
<1>13. Len(sent') = n + 1 /\ next_seq \in Nat
  BY <1>5 DEF RingInv
<1>14. RingInv'
  BY <1>1, <1>9, <1>10, <1>11, <1>12, <1>13 DEF RingInv
<1> QED
  BY <1>2, <1>14

LEMMA WalkCarries ==
  ASSUME StagesInv, CarryInv, RingInv, NEW w \in Worker, Walk(w)
  PROVE  CarryInv' /\ RingInv'
<1>1. StagesType /\ JobFits(Idle) /\ Idle.step = "idle"
  BY DEF StagesInv, JobFits, Idle
<1>2. CASE \E raw \in Raw : TakeRecord(w, raw)
  BY <1>2, TakeCarries, RingKept DEF TakeRecord, outVars
<1>3. CASE Process(w)
  BY <1>3, ProcessCarries, RingKept DEF Process, outVars
<1>4. CASE CountOutcome(w)
  BY <1>4, CountOutcomeCarries, RingKept DEF CountOutcome, outVars
<1>5. CASE FrameRecord(w)
  BY <1>5, FrameKeepsRing
<1>6. CASE EnqueueRecord(w)
  BY <1>6, EnqueueKeepsRing
<1>7. CASE CountEnqueued(w)
  <2>1. /\ job[w].step = "enqueued" /\ job' = [job EXCEPT ![w].step = "count"]
        /\ UNCHANGED <<chain, scratch, sent, next_seq>>
    BY <1>7 DEF CountEnqueued, outVars
  <2> QED
    BY <2>1, EnqueueCarries, RingKept
<1>8. CASE RefuseRecord(w)
  <2>1. UNCHANGED <<chain, scratch, sent, next_seq>>
    BY <1>8 DEF RefuseRecord, outVars
  <2>2. PICK i : job' = [job EXCEPT ![w] = [step |-> "refused", at |-> i]]
    BY <1>8 DEF RefuseRecord
  <2>3. JobFits(job'[w]) /\ job'[w] = [step |-> "refused", at |-> i]
    <3>1. StagesInv'
      BY <1>8, RefuseKeepsStory
    <3>2. (\A v \in Worker : JobFits(job[v]))' /\ chain' = chain
      BY <2>1, <3>1 DEF StagesInv, StagesType
    <3> QED
      BY <1>1, <2>2, <3>2 DEF StagesType, JobFits, PlainJob, OutJob, RefusedJob
  <2> PICK j : j = [step |-> "refused", at |-> i]
    OBVIOUS
  <2>4. j.step = "refused" /\ JobFits(j) /\ job' = [job EXCEPT ![w] = j]
    BY <2>2, <2>3
  <2> QED
    BY <1>1, <2>1, <2>4, EndCarries, RingKept
<1>9. CASE DropRecord(w) \/ DropRefused(w) \/ DropFlagged(w) \/ ForwardRecord(w)
  <2>1. /\ UNCHANGED <<chain, scratch, sent, next_seq>>
        /\ job' = [job EXCEPT ![w] = Idle]
    BY <1>9 DEF DropRecord, DropRefused, DropFlagged, ForwardRecord, Finish, outVars
  <2> QED
    BY <1>1, <2>1, EndCarries, RingKept
<1> QED
  BY <1>2, <1>3, <1>4, <1>5, <1>6, <1>7, <1>8, <1>9 DEF Walk, RingOutput

LEMMA NextCarries ==
  ASSUME StagesInv, CarryInv, RingInv, [StagesNext]_stageVars
  PROVE  CarryInv' /\ RingInv'
<1>1. CASE \E w \in Worker : Walk(w)
  BY <1>1, WalkCarries
<1>2. CASE StatusLoop \/ UNCHANGED stageVars \/ Quiet
  <2>1. UNCHANGED <<chain, job, scratch, sent, next_seq>>
    BY <1>2 DEF StatusLoop, LoadTotal, UpdateTotals, LoadStage, UpdateStages, Load, Publish,
                Quiet, stageVars, workerVars, outVars
  <2> QED
    BY <2>1 DEF CarryInv, RingInv
<1> QED
  BY <1>1, <1>2 DEF StagesNext

LEMMA InitCarries ==
  ASSUME StagesInit
  PROVE  CarryInv /\ RingInv
<1>1. /\ \A i \in 1 .. Len(chain) : Takes(chain[i])
      /\ DOMAIN scratch = Worker /\ \A w \in Worker : Buffers(scratch[w])
      /\ \A w \in Worker : job[w] = Idle
      /\ next_seq = 0 /\ Len(sent) = 0
  BY DEF StagesInit, Buffers, IsScratch
<1>2. \A w \in Worker : job[w].step = "idle"
  BY <1>1 DEF Idle
<1> QED
  BY <1>1, <1>2 DEF CarryInv, RingInv, Carries

THEOREM StagesCarry == StagesSpec => [](StagesInv /\ CarryInv /\ RingInv)
<1>1. StagesInit => StagesInv /\ CarryInv /\ RingInv
  BY InitTellsStory, InitCarries
<1>2. StagesInv /\ CarryInv /\ RingInv /\ [StagesNext]_stageVars
        => (StagesInv /\ CarryInv /\ RingInv)'
  BY NextKeepsStory, NextCarries
<1> QED
  BY <1>1, <1>2, PTL DEF StagesSpec

\* Every stage is called with what its own record and the configuration say, however the
\* workers interleave, and with nothing that an earlier record left in a scratch buffer
\* (pipeline.c:42, stages/*.c), until an extract stage is called with a field that
\* another one cut out (extract_stage.c:111-116).
THEOREM StagesSeeTheirOwn == StagesSpec => []OwnRecordOnly
<1>1. StagesInv /\ CarryInv => OwnRecordOnly
  <2> SUFFICES ASSUME StagesInv, CarryInv, NEW w \in Worker, Ready(w),
                      CalledWhole(At(w), job[w].record)
               PROVE  Given(w) = AsSeenBy(At(w), job[w].record)
    BY DEF OwnRecordOnly
  <2>1. HoldsSeen(chain, scratch[w][Buffer(At(w))], job[w].len, At(w), job[w].record)
    BY ReadyHolds DEF StagesInv
  <2> PICK cells : /\ Holds(scratch[w][Buffer(At(w))], job[w].len, cells)
                   /\ WholeIn(chain, At(w), job[w].record) =>
                        cells = SeenIn(chain, At(w), job[w].record)
    BY <2>1 DEF HoldsSeen
  <2>2. cells = AsSeenBy(At(w), job[w].record)
    BY SeenInChain, WholeInChain
  <2> QED
    BY <2>2, HoldsWhole DEF Given
<1> QED
  BY <1>1, StagesCarry, PTL

\* What ring_output makes, its reader takes whole.
LEMMA BlobTaken ==
  ASSUME NEW b, NEW r, IsBlob(chain, b, r)
  PROVE  /\ Validate([require_magic |-> TRUE], b, Len(b)) = Result(FALSE, b)
         /\ CalledWhole(Len(chain), r) => PayloadOf(b) = AsSeenBy(Len(chain), r)
<1> PICK p \in Seq(Int) :
      /\ b = Headed(Magic, b[2], p)
      /\ WholeIn(chain, Len(chain), r) => p = SeenIn(chain, Len(chain), r)
  BY DEF IsBlob
<1>1. b[2] \in Int /\ b = Headed(Magic, b[2], p) /\ Magic \in Int
  BY StagesAssumption DEF IsBlob
<1>2. /\ b \in Seq(Int) /\ Len(b) = HdrLen + Len(p) /\ Len(p) \in Nat
      /\ b[1] = Magic /\ b[3] = Len(p)
      /\ \A i \in 1 .. Len(p) : b[HdrLen + i] = p[i]
  <2> PICK n \in Int : n = b[2]
    BY <1>1
  <2> PICK h : h = Headed(Magic, n, p)
    OBVIOUS
  <2>1. /\ h \in Seq(Int) /\ Len(h) = HdrLen + Len(p) /\ Len(p) \in Nat
        /\ h[1] = Magic /\ h[3] = Len(p)
        /\ \A i \in 1 .. Len(p) : h[HdrLen + i] = p[i]
    BY <1>1, HeadedCells
  <2>2. b = h
    BY <1>1
  <2> QED
    BY <2>1, <2>2
<1>3. Whole(b, Len(b)) = b
  BY <1>2, SubSeqFull DEF Whole
<1>4. Validate([require_magic |-> TRUE], b, Len(b)) = Result(FALSE, b)
  <2>1. ~(Len(b) < HdrLen \/ HdrLen + HdrPayload(b) # Len(b))
    BY <1>2 DEF HdrPayload, HdrLen
  <2>2. (TRUE /\ HdrMagic(b) # Magic) = FALSE
    BY <1>2 DEF HdrMagic
  <2> QED
    BY <1>3, <2>1, <2>2 DEF Validate
<1>5. PayloadOf(b) = p
  <2>1. PICK n \in Nat : n = Len(p)
    BY <1>2
  <2>2. PICK m \in Nat : m = HdrLen
    BY DEF HdrLen
  <2>3. \A i \in 1 .. n : b[m + i] = p[i] /\ p[i] \in Int
    BY <1>1, <1>2, <2>1, <2>2, ElementOfSeq
  <2>4. PICK s : s = SubSeq(b, m + 1, m + n)
    OBVIOUS
  <2>5. s \in Seq(Int) /\ Len(s) = n /\ \A i \in 1 .. n : s[i] = b[m + i]
    <3>1. \A i \in 1 .. n : b[m + i] \in Int
      BY <2>3
    <3> QED
      BY <2>4, <3>1, SliceOfInts, Zenon
  <2>6. Len(s) = Len(p) /\ \A i \in 1 .. Len(s) : s[i] = p[i]
    BY <2>1, <2>3, <2>5
  <2>7. s = p
    BY <1>1, <2>5, <2>6, SeqEqual
  <2> QED
    BY <1>2, <2>1, <2>2, <2>4, <2>7 DEF PayloadOf
<1> QED
  BY <1>4, <1>5, SeenInChain, WholeInChain

\* The instance that reads the ring of a ring_output stage takes every record there:
\* each is whole and has a number of its own, and its payload is what this stage was given,
\* where no extract stage was called with a field (ring_output_stage.c:129-166).
THEOREM RingIsTaken == StagesSpec => []DownstreamTakesAll
<1>1. StagesInv /\ RingInv => DownstreamTakesAll
  <2> SUFFICES ASSUME StagesInv, RingInv PROVE DownstreamTakesAll
    OBVIOUS
  <2>1. DOMAIN sent = 1 .. Len(sent)
    <3>1. sent \in Seq({sent[k] : k \in 1 .. Len(sent)})
      BY DEF StagesInv, StagesType, SentIsSeq
    <3> QED
      BY <3>1, LenProperties
  <2>2. \A k \in 1 .. Len(sent) : IsBlob(chain, sent[k].blob, sent[k].record)
    BY DEF RingInv
  <2>3. \A k \in 1 .. Len(sent) :
          /\ Validate([require_magic |-> TRUE], sent[k].blob, Len(sent[k].blob))
               = Result(FALSE, sent[k].blob)
          /\ CalledWhole(Len(chain), sent[k].record) =>
               PayloadOf(sent[k].blob) = AsSeenBy(Len(chain), sent[k].record)
    BY <2>2, BlobTaken
  <2>4. \A k, l \in 1 .. Len(sent) : sent[k].blob[2] = sent[l].blob[2] => k = l
    BY DEF RingInv
  <2> QED
    BY <2>1, <2>3, <2>4, Zenon DEF DownstreamTakesAll
<1> QED
  BY <1>1, StagesCarry, PTL
===============================================================================
