--------------------------------- MODULE Stages ---------------------------------
(*****************************************************************************)
(* src/src/stages/*.c on records of a few cells, the walk of pipeline.c that *)
(* calls them with a worker's two scratch buffers, and the status loop of    *)
(* main.c that reads their counters while they run.                          *)
(*                                                                           *)
(* A record is a sequence of cells: a header of HdrLen (magic, seq, payload  *)
(* length) and its payload.  A scratch buffer keeps the cells that an        *)
(* earlier record left in it behind those of the current one, and extract    *)
(* goes by the payload length that it finds there, whatever it was given.    *)
(* The graph is a chain; GraphConfig.tla and Pipeline.tla have its other     *)
(* shapes.                                                                   *)
(*****************************************************************************)
EXTENDS Integers, Sequences, FiniteSets

CONSTANTS
  Worker,      \* the worker lcores
  Chain,       \* the chains of stage configurations that graphs may ask for
  Magic,       \* CHRONO_RECORD_MAGIC
  OtherMagic,  \* any other magic that a producer may have written
  Raw,         \* what is on the ring: [magic, payload] records
  Cap,         \* STAGE_SCRATCH_BYTES in cells
  Stray,       \* what may lie in memory behind a scratch buffer
  MaxRecords,  \* bound: how many records the workers take
  MaxUpdates   \* bound: how many status updates main() completes

HdrLen   == 3       \* sizeof(struct chrono_record_hdr) in cells
ValueLen == 2       \* the 8 bytes of an extracted or a converted value
Widths   == {1, 2}  \* the field widths extract_stage_init() takes, 2 to 8 bytes
Base     == 16      \* how many values a cell has

ASSUME StagesAssumption ==
  /\ IsFiniteSet(Worker) /\ Worker # {}
  /\ Magic \in Int /\ OtherMagic \in Int \ {Magic}
  /\ Cap \in Nat /\ ValueLen <= Cap /\ MaxRecords \in Nat /\ MaxUpdates \in Nat
  /\ Stray # {} /\ Stray \subseteq Int
  /\ \A r \in Raw : /\ r.magic \in {Magic, OtherMagic}
                    /\ r.payload \in Seq(Int) /\ HdrLen + Len(r.payload) <= Cap

Sink == {"null_sink", "dump_binary", "dump_text", "forward_udp", "ring_output"}
StageKind == Sink \cup {"validate", "extract", "byte_match", "convert"}

\* What graph_config.c's checks of ports and types leave of the chains of these
\* stages: each ends in its only sink, and behind a convert nothing but a sink takes
\* what it makes.
ASSUME ChainAssumption ==
  \A c \in Chain :
    /\ Len(c) \in Nat \ {0}
    /\ \A i \in 1 .. Len(c) :
         /\ c[i].kind \in StageKind
         /\ c[i].kind \in Sink <=> i = Len(c)
         /\ c[i].kind = "validate" => c[i].require_magic \in BOOLEAN
         /\ c[i].kind = "extract" => c[i].offset \in Nat /\ c[i].width \in Nat
         /\ c[i].kind = "convert" =>
              i + 1 = Len(c) /\ c[i].scale \in Int /\ c[i].offset \in Int

VARIABLES
  chain,    \* the chain this process runs
  scratch,  \* each worker's two scratch buffers
  job,      \* the record each worker walks, and what the last process() said of it
  totals,   \* struct pipeline_counters
  counts,   \* the counters behind each stage's get_status()
  next_seq, \* how many records a ring_output stage has numbered
  sent,     \* history: the records it has put on its ring, and what they were made of
  loaded,   \* what the running status update has loaded so far
  loading,  \* which update main() is in
  moved,    \* history: a total changed since that update's first load
  shown, shown_stages,  \* struct app_web_status, what GET requests are answered from
  updates   \* how many updates have been completed

outVars    == <<next_seq, sent>>
workerVars == <<scratch, job, totals, counts, outVars>>
statusVars == <<loaded, loading, shown, shown_stages, updates>>
stageVars  == <<chain, workerVars, moved, statusVars>>

-------------------------------------------------------------------------------
\* init(): which configurations each stage takes; graph_config_load() refuses a
\* graph with any other.

ByteMatchTakes(st) == Len(st.magic) > 0 /\ Len(st.mask) = Len(st.magic)

ExtractTakes(st) ==
  \/ st.mode = "numeric" /\ st.width \in Widths
  \/ st.mode = "bytes"   /\ st.width \in 1 .. Cap

Takes(st) ==
  /\ st.kind = "extract" => ExtractTakes(st)
  /\ st.kind = "byte_match" => ByteMatchTakes(st)
  /\ st.kind \in {"dump_binary", "dump_text"} => st.path

\* The counters that get_status() reports, for those stages that have one.
ValidateFields   == {"checked", "missed"}
ByteMatchFields  == {"checked", "matched", "missed"}
NullSinkFields   == {"checked", "bytes"}
DumpBinaryFields == {"checked", "bytes"}
RingOutputFields == {"checked", "missed", "bytes"}

Fields(st) ==
  CASE st.kind = "validate"    -> ValidateFields
    [] st.kind = "byte_match"  -> ByteMatchFields
    [] st.kind = "null_sink"   -> NullSinkFields
    [] st.kind = "dump_binary" -> DumpBinaryFields
    [] st.kind = "ring_output" -> RingOutputFields
    [] OTHER -> {}

-------------------------------------------------------------------------------
\* process(): what a stage can make of the len cells in the buffer it is given.

Result(flagged, out) == [ok |-> TRUE, flagged |-> flagged, out |-> out]
Dropped == [ok |-> FALSE, flagged |-> FALSE, out |-> <<>>]

Whole(buf, len) == SubSeq(buf, 1, len)
HdrMagic(buf)   == buf[1]
HdrPayload(buf) == buf[3]

Validate(st, buf, len) ==
  IF len < HdrLen \/ HdrLen + HdrPayload(buf) # len THEN Dropped
  ELSE Result(st.require_magic /\ HdrMagic(buf) # Magic, Whole(buf, len))

\* get_be() and put_be64(): the field's cells, behind as many zeros as it is short.
Widened(field) == [i \in 1 .. ValueLen - Len(field) |-> 0] \o field

\* What the width cells behind the first from can be; the buffer has Cap of its own.
FieldsAt(buf, from, width) ==
  {[i \in 1 .. width |-> IF from + i <= Cap THEN buf[from + i] ELSE stray[i]] :
     stray \in [1 .. width -> Stray]}

Cutout(st, field) == Result(FALSE, IF st.mode = "numeric" THEN Widened(field) ELSE field)

\* Mutant: the offset is taken from the start of the record.
ExtractFromRecord(st, buf, len) ==
  IF st.offset + st.width > HdrPayload(buf) THEN {Result(TRUE, Whole(buf, len))}
  ELSE {Cutout(st, field) : field \in FieldsAt(buf, st.offset, st.width)}

\* The header is read whether or not there is one: len is not looked at.
Extract(st, buf, len) ==
  IF st.offset + st.width > HdrPayload(buf) THEN {Result(TRUE, Whole(buf, len))}
  ELSE {Cutout(st, field) : field \in FieldsAt(buf, HdrLen + st.offset, st.width)}

\* The mask says of each cell whether it is compared.
ByteMatch(st, buf, len) ==
  IF st.offset + Len(st.magic) > len THEN Dropped
  ELSE Result(\E i \in 1 .. Len(st.magic) : st.mask[i] /\ buf[st.offset + i] # st.magic[i],
              Whole(buf, len))

\* The double is opaque: one cell stands for its eight bytes, the others are 0.
Double(v) == [i \in 1 .. ValueLen |-> IF i = 1 THEN v ELSE 0]

Convert(st, buf, len) ==
  IF len # ValueLen THEN Dropped
  ELSE Result(FALSE, Double((buf[1] * Base + buf[2]) * st.scale + st.offset))

\* A sink hands nothing on; fwrite(), fprintf() and sendto() may fail.
Consumed == Result(FALSE, <<>>)

NullSink        == {Consumed}
DumpBinary(len) == {Consumed} \cup {r \in {Dropped} : len > 0}
DumpText(len)   == {Dropped} \cup {r \in {Consumed} : len = ValueLen}
ForwardUdp      == {Consumed, Dropped}

Outcomes(st, buf, len) ==
  CASE st.kind = "validate"    -> {Validate(st, buf, len)}
    [] st.kind = "extract"     -> Extract(st, buf, len)
    [] st.kind = "byte_match"  -> {ByteMatch(st, buf, len)}
    [] st.kind = "convert"     -> {Convert(st, buf, len)}
    [] st.kind = "null_sink"   -> NullSink
    [] st.kind = "dump_binary" -> DumpBinary(len)
    [] st.kind = "dump_text"   -> DumpText(len)
    [] st.kind = "forward_udp" -> ForwardUdp
    [] st.kind = "ring_output" -> {}  \* FrameRecord and what follows it

-------------------------------------------------------------------------------

Total == {"records_in", "records_dropped", "records_forwarded"}
Field == {"checked", "matched", "missed", "bytes"}
NoTotals == [c \in Total |-> 0]
NoCounts == [i \in 1 .. Len(chain) |-> [f \in Field |-> 0]]
Idle == [step |-> "idle"]

StagesInit ==
  /\ chain \in {c \in Chain : \A i \in 1 .. Len(c) : Takes(c[i])}
  /\ scratch = [w \in Worker |-> [b \in 0 .. 1 |-> [i \in 1 .. Cap |-> 0]]]
  /\ job = [w \in Worker |-> Idle]
  /\ totals = NoTotals /\ counts = NoCounts
  /\ next_seq = 0 /\ sent = <<>>
  /\ loaded = <<>> /\ loading = "none" /\ moved = FALSE
  /\ shown = NoTotals /\ shown_stages = NoCounts
  /\ updates = 0

\* The scratch buffer that stage i reads: scratch[depth % 2].
Buffer(i) == (i - 1) % 2

Overwrite(buf, cells) ==
  [i \in 1 .. Cap |-> IF i <= Len(cells) THEN cells[i] ELSE buf[i]]

CountTotal(c) ==
  /\ totals' = [totals EXCEPT ![c] = @ + 1]
  /\ moved' = TRUE

\* pipeline_run() is given the next record of the ring.
TakeRecord(w, raw) ==
  LET record == <<raw.magic, totals["records_in"] + 1, Len(raw.payload)>> \o raw.payload
  IN  /\ job[w] = Idle
      /\ totals["records_in"] < MaxRecords
      /\ CountTotal("records_in")
      /\ scratch' = [scratch EXCEPT ![w][0] = Overwrite(@, record)]
      /\ job' = [job EXCEPT ![w] = [step |-> "process", record |-> record, at |-> 1,
                                    len |-> Len(record), flagged |-> FALSE]]
      /\ UNCHANGED <<chain, counts, outVars, statusVars>>

Finish(w, counter) ==
  /\ job' = [job EXCEPT ![w] = Idle]
  /\ CountTotal(counter)

Passes(w) ==
  /\ job[w].step = "route"
  /\ job[w].flagged => chain[job[w].at].pass_invalid

\* The stage that a worker is about to call: the first one, or the next one once
\* the last stage has let its record pass.
Ready(w) ==
  \/ job[w].step = "process"
  \/ Passes(w) /\ chain[job[w].at].kind \notin Sink
At(w) == IF job[w].step = "process" THEN job[w].at ELSE job[w].at + 1

Given(w) == Whole(scratch[w][Buffer(At(w))], job[w].len)
MayMake(w) == Outcomes(chain[At(w)], scratch[w][Buffer(At(w))], job[w].len)

\* Mutant: the early return comes before the count.
DropRecordUncounted(w) ==
  /\ Ready(w) /\ Dropped \in MayMake(w)
  /\ job' = [job EXCEPT ![w] = Idle]
  /\ UNCHANGED <<chain, scratch, totals, counts, outVars, moved, statusVars>>

\* process() returns ok = false.
DropRecord(w) ==
  /\ Ready(w) /\ Dropped \in MayMake(w)
  /\ Finish(w, "records_dropped")
  /\ UNCHANGED <<chain, scratch, counts, outVars, statusVars>>

\* process() up to the first of its two atomic increments, if it has any.
Process(w) ==
  LET i == At(w)
      counted == Fields(chain[i]) # {}
  IN  /\ Ready(w)
      /\ \E r \in MayMake(w) \ {Dropped} :
           /\ scratch' = [scratch EXCEPT ![w][Buffer(i + 1)] = Overwrite(@, r.out)]
           /\ job' = [job EXCEPT ![w] = [step |-> IF counted THEN "count" ELSE "route",
                                         record |-> @.record, at |-> i, flagged |-> r.flagged,
                                         len |-> IF chain[i].kind \in Sink THEN @.len
                                                 ELSE Len(r.out)]]
      /\ counts' = IF counted THEN [counts EXCEPT ![i]["checked"] = @ + 1] ELSE counts
      /\ UNCHANGED <<chain, totals, outVars, moved, statusVars>>

\* Mutant: a match is left uncounted.
SecondFieldMissed(st, flagged) ==
  CASE st.kind = "validate"   -> IF flagged THEN "missed" ELSE "none"
    [] st.kind = "byte_match" -> IF flagged THEN "missed" ELSE "none"
    [] OTHER -> "bytes"

\* The counter that process() increments second.
SecondField(st, flagged) ==
  CASE st.kind = "validate"   -> IF flagged THEN "missed" ELSE "none"
    [] st.kind = "byte_match" -> IF flagged THEN "missed" ELSE "matched"
    [] OTHER -> "bytes"

CountOutcome(w) ==
  LET i == job[w].at
      f == SecondField(chain[i], job[w].flagged)
  IN  /\ job[w].step = "count"
      /\ job' = [job EXCEPT ![w].step = "route"]
      /\ counts' = IF f = "none" THEN counts
                   ELSE [counts EXCEPT ![i][f] = @ + (IF f = "bytes" THEN job[w].len ELSE 1)]
      /\ UNCHANGED <<chain, scratch, totals, outVars, moved, statusVars>>

\* A flagged record without on_invalid, as in Pipeline.tla.
DropFlagged(w) ==
  /\ job[w].step = "route"
  /\ job[w].flagged /\ ~chain[job[w].at].pass_invalid
  /\ Finish(w, "records_dropped")
  /\ UNCHANGED <<chain, scratch, counts, outVars, statusVars>>

ForwardRecord(w) ==
  /\ Passes(w) /\ chain[job[w].at].kind \in Sink
  /\ Finish(w, "records_forwarded")
  /\ UNCHANGED <<chain, scratch, counts, outVars, statusVars>>

-------------------------------------------------------------------------------
\* process() of ring_output, which makes a record of its own of what it is given.

OutStage(w) == chain[At(w)].kind = "ring_output"

\* Mutant: the number is that of the records on the ring, not one of its own.
FrameRecordCounted(w) ==
  /\ Ready(w) /\ OutStage(w)
  /\ job' = [job EXCEPT ![w] = [step |-> "enqueue", at |-> At(w), record |-> job[w].record,
                                len |-> job[w].len, flagged |-> FALSE,
                                blob |-> <<Magic, counts[At(w)]["checked"], job[w].len>> \o Given(w)]]
  /\ UNCHANGED <<chain, scratch, totals, counts, outVars, moved, statusVars>>

FrameRecord(w) ==
  /\ Ready(w) /\ OutStage(w)
  /\ next_seq' = next_seq + 1
  /\ job' = [job EXCEPT ![w] = [step |-> "enqueue", at |-> At(w), record |-> job[w].record,
                                len |-> job[w].len, flagged |-> FALSE,
                                blob |-> <<Magic, next_seq, job[w].len>> \o Given(w)]]
  /\ UNCHANGED <<chain, scratch, totals, counts, sent, moved, statusVars>>

\* How full the ring is depends on the process that reads it.
EnqueueRecord(w) ==
  /\ job[w].step = "enqueue"
  /\ sent' = Append(sent, [blob |-> job[w].blob, record |-> job[w].record])
  /\ job' = [job EXCEPT ![w].step = "enqueued"]
  /\ UNCHANGED <<chain, scratch, totals, counts, next_seq, moved, statusVars>>

CountEnqueued(w) ==
  /\ job[w].step = "enqueued"
  /\ job' = [job EXCEPT ![w].step = "count"]
  /\ counts' = [counts EXCEPT ![job[w].at]["checked"] = @ + 1]
  /\ UNCHANGED <<chain, scratch, totals, outVars, moved, statusVars>>

\* No memory, or a full ring: counted here first, then by pipeline_run().
RefuseRecord(w) ==
  /\ (Ready(w) /\ OutStage(w)) \/ job[w].step = "enqueue"
  /\ LET i == IF job[w].step = "enqueue" THEN job[w].at ELSE At(w)
     IN  /\ counts' = [counts EXCEPT ![i]["missed"] = @ + 1]
         /\ job' = [job EXCEPT ![w] = [step |-> "refused", at |-> i]]
  /\ UNCHANGED <<chain, scratch, totals, outVars, moved, statusVars>>

DropRefused(w) ==
  /\ job[w].step = "refused"
  /\ Finish(w, "records_dropped")
  /\ UNCHANGED <<chain, scratch, counts, outVars, statusVars>>

RingOutput(w) ==
  \/ FrameRecord(w) \/ EnqueueRecord(w) \/ CountEnqueued(w)
  \/ RefuseRecord(w) \/ DropRefused(w)

-------------------------------------------------------------------------------

Walk(w) ==
  \/ \E raw \in Raw : TakeRecord(w, raw)
  \/ DropRecord(w) \/ Process(w) \/ CountOutcome(w) \/ RingOutput(w)
  \/ DropFlagged(w) \/ ForwardRecord(w)

-------------------------------------------------------------------------------
\* The status loop of main().  The three loads are the arguments of one call, which
\* C evaluates in any order.

Load(update, key, value) ==
  /\ updates < MaxUpdates
  /\ loading \in {"none", update}
  /\ key \notin DOMAIN loaded
  /\ loading' = update
  /\ loaded' = [k \in DOMAIN loaded \cup {key} |-> IF k = key THEN value ELSE loaded[k]]
  /\ UNCHANGED <<chain, workerVars, shown, shown_stages, updates>>

LoadTotal(c) ==
  /\ Load("totals", c, totals[c])
  /\ moved' = (loading = "totals" /\ moved)

Publish ==
  /\ loaded' = <<>> /\ loading' = "none"
  /\ updates' = updates + 1
  /\ UNCHANGED <<chain, workerVars>>

\* app_web_status_update(): the three values change together under the lock that
\* the web thread reads them under.
UpdateTotals ==
  /\ loading = "totals" /\ DOMAIN loaded = Total
  /\ Publish
  /\ shown' = loaded
  /\ UNCHANGED <<shown_stages, moved>>

StageFields == {k \in (1 .. Len(chain)) \X Field : k[2] \in Fields(chain[k[1]])}

\* get_status() of one stage after the other, its relaxed loads in any order.
LoadStage(i, f) ==
  /\ <<i, f>> \in StageFields
  /\ \A k \in StageFields : k[1] < i => k \in DOMAIN loaded
  /\ Load("stages", <<i, f>>, counts[i][f])
  /\ UNCHANGED moved

\* Mutant: the snapshot is cleared and filled in the open.
UpdateStagesUnlocked ==
  /\ loading = "stages"
  /\ Publish
  /\ shown_stages' = [i \in 1 .. Len(chain) |-> [f \in Field |->
                        IF <<i, f>> \in DOMAIN loaded THEN loaded[<<i, f>>] ELSE 0]]
  /\ UNCHANGED <<shown, moved>>

\* app_web_status_update_stage_statuses() keeps the lock from the first load on.
UpdateStages ==
  /\ loading = "stages" /\ DOMAIN loaded = StageFields
  /\ Publish
  /\ shown_stages' = [i \in 1 .. Len(chain) |-> [f \in Field |->
                        IF <<i, f>> \in StageFields THEN loaded[<<i, f>>] ELSE 0]]
  /\ UNCHANGED <<shown, moved>>

StatusLoop ==
  \/ \E c \in Total : LoadTotal(c)
  \/ UpdateTotals
  \/ \E i \in 1 .. Len(chain), f \in Field : LoadStage(i, f)
  \/ UpdateStages

\* The records and updates of the bounds are used up.
Quiet ==
  /\ \A w \in Worker : job[w] = Idle
  /\ totals["records_in"] = MaxRecords /\ updates = MaxUpdates
  /\ UNCHANGED stageVars

StagesNext == (\E w \in Worker : Walk(w)) \/ StatusLoop \/ Quiet
StagesSpec == StagesInit /\ [][StagesNext]_stageVars

-------------------------------------------------------------------------------

\* What record is when stage i is called with it, said of the record alone: whole
\* until an extract stage whose field fits, then that field, then its value.  It can
\* be said if no extract stage before i was itself called with a field.
PayloadOf(record) == SubSeq(record, HdrLen + 1, Len(record))
FieldOf(st, record) == SubSeq(PayloadOf(record), st.offset + 1, st.offset + st.width)
Before(i, kind) == {k \in 1 .. i - 1 : chain[k].kind = kind}
Cut(i, record) ==
  {k \in Before(i, "extract") : chain[k].offset + chain[k].width <= Len(PayloadOf(record))}

CalledWhole(i, record) == \A k \in Before(i, "extract") : Cut(k, record) = {}

AsSeenBy(i, record) ==
  IF Cut(i, record) = {} THEN record
  ELSE LET st    == chain[CHOOSE k \in Cut(i, record) : TRUE]
           field == FieldOf(st, record)
           cells == IF st.mode = "bytes" THEN field
                    ELSE IF Len(field) = 1 THEN <<0, field[1]>> ELSE field
       IN  IF Before(i, "convert") = {} THEN cells
           ELSE LET c == chain[CHOOSE k \in Before(i, "convert") : TRUE]
                IN  Double((cells[1] * Base + cells[2]) * c.scale + c.offset)

\* Every stage is called with what the record and the configuration say, and with
\* nothing that another record or another worker left in a scratch buffer
\* (pipeline.c:42, stages/*.c), unless an extract stage before it was called with the
\* field that another one had cut out: that one goes by a header that is not there
\* (extract_stage.c:111-116), and may hand on what an earlier record left behind.
OwnRecordOnly ==
  \A w \in Worker :
    Ready(w) /\ CalledWhole(At(w), job[w].record) =>
      Given(w) = AsSeenBy(At(w), job[w].record)

\* The counters of different stages and of the pipeline tell one story at any time,
\* up to the workers between two increments: a byte_match stage has matched or not
\* matched what it checked, validate flags no more than it checked, and a counting
\* sink has received what the pipeline calls forwarded.
CountersTellOneStory ==
  \A i \in 1 .. Len(chain) :
    LET st == chain[i]
        between(steps) == Cardinality({w \in Worker :
                             job[w].step \in steps /\ job[w].at = i})
    IN  /\ st.kind = "byte_match" =>
             counts[i]["checked"] = counts[i]["matched"] + counts[i]["missed"] + between({"count"})
        /\ st.kind = "validate" => counts[i]["missed"] <= counts[i]["checked"]
        /\ st.kind \in {"null_sink", "dump_binary", "ring_output"} =>
             counts[i]["checked"] = totals["records_forwarded"] + between({"count", "route"})
        /\ st.kind = "ring_output" =>
             /\ Len(sent) = counts[i]["checked"] + between({"enqueued"})
             /\ counts[i]["missed"] <= totals["records_dropped"] + between({"refused"})

\* The instance that reads the ring of a ring_output stage takes every record there:
\* each is whole, with a magic that its validate stage passes and a number no other
\* has, however the workers interleave, whatever became of the records in between and
\* whatever is sent; and its payload is what this stage was given, where that can be
\* said of the record (ring_output_stage.c:129-166).
DownstreamTakesAll ==
  /\ \A i, j \in DOMAIN sent : sent[i].blob[2] = sent[j].blob[2] => i = j
  /\ \A i \in DOMAIN sent :
       LET blob == sent[i].blob
       IN  /\ Validate([require_magic |-> TRUE], blob, Len(blob)) = Result(FALSE, blob)
           /\ CalledWhole(Len(chain), sent[i].record) =>
                PayloadOf(blob) = AsSeenBy(Len(chain), sent[i].record)

\* A published status whose loads no counted record overlapped adds up: it lacks
\* exactly records that workers had in hand, whatever the order of the loads
\* (main.c:496-500).  One that was overlapped may not add up.
InHand(c) == c["records_in"] - c["records_dropped"] - c["records_forwarded"]
StatusAddsUp ==
  (loading = "totals" /\ DOMAIN loaded = Total /\ ~moved) =>
    InHand(loaded) = Cardinality({w \in Worker : job[w] # Idle})

\* GET /status.json and GET /api/stage-status, each under the lock.
StatusJson  == shown
StageStatus == [i \in 1 .. Len(chain) |-> [f \in Fields(chain[i]) |-> shown_stages[i][f]]]

\* What a client polls never goes back and never runs ahead of the counters, also
\* while workers count during the loads (web_status.c:66-98).
StatusNeverGoesBack ==
  [][/\ \A c \in Total : StatusJson[c] <= StatusJson'[c] /\ StatusJson'[c] <= totals'[c]
     /\ \A i \in 1 .. Len(chain) : \A f \in Fields(chain[i]) :
          StageStatus[i][f] <= StageStatus'[i][f] /\ StageStatus'[i][f] <= counts'[i][f]]_stageVars
===============================================================================
