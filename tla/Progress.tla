------------------------------ MODULE Progress ------------------------------
(***************************************************************************)
(* The progress bar (sync_diff_inspector/progress/progress.go): operations *)
(* sent through a channel by the structure check, by the splitter of each  *)
(* table and by the workers, and served one at a time.                     *)
(*                                                                         *)
(* A table is [reg, kind, chunks]: what the structure check registered it  *)
(* as ("none" when only data is checked), its splitter and the number of   *)
(* chunks still to be compared, which is 0 when a checkpoint left none.    *)
(* Instead of a splitter, "skip" is a table whose data is not compared     *)
(* since its structure differs, and "lack" one that a side lacks.  A batch *)
(* of the bucket splitter is one chunk here.  What the bar prints is left  *)
(* out but for the share that is filled.                                   *)
(***************************************************************************)
EXTENDS Integers, Sequences, FiniteSets

CONSTANTS
    BarTables,      \* the tables
    BarSetups,      \* what the tables may be
    OptCap,         \* the capacity of optCh, 16 in the code
    Finished,       \* finishTableNums: the tables a checkpoint says are finished
    NoTable

\* A table whose data is not compared has one chunk, the empty one.
ASSUME ProgressAssumption ==
    /\ IsFiniteSet(BarTables) /\ OptCap \in Nat \ {0} /\ Finished \in Nat
    /\ BarSetups \subseteq [BarTables -> [reg : {"none", "same", "continue", "done", "lack"},
                                        kind : {"random", "bucket", "limit", "skip", "lack"}, chunks : Nat]]
    /\ \A s \in BarSetups : \A t \in BarTables :
          /\ s[t].kind = "skip" <=> s[t].reg = "done"
          /\ s[t].kind = "lack" => s[t].reg \in {"lack", "none"}
          /\ s[t].reg = "lack" => s[t].kind = "lack"
          /\ s[t].kind \in {"skip", "lack"} => s[t].chunks <= 1

VARIABLES
    setup,          \* the tables of this run
    \* who sends
    unregistered,   \* the tables StructEqual has not come to
    producer,       \* where the splitter of each table is
    produced,       \* the chunks each has published
    comparing,      \* of each table's chunks, those compared and those known to
                    \* fail; history: whether one failed
    late,           \* history: the bucket tables whose last total was sent when
                    \* all their chunks were compared
    optCh,
    \* TableProgressPrinter
    entry,          \* the TableProgress of each table, NoTable before it has one
    tableMap, tableList, tableFailList,
    progressTableNums, finishTableNums, progress, total,
    serving         \* TRUE until the server returns

senders == <<setup, unregistered, producer, produced, comparing, late>>
entries == <<entry, tableMap, tableList, tableFailList>>
counters == <<progressTableNums, finishTableNums, progress, total>>
barVars == <<senders, optCh, entries, counters, serving>>

tableNums == Cardinality(BarTables) + Finished

\* A table of a run that also checks structures is registered first.
Registered(t) == setup[t].reg # "none"

\* All but the bucket and limit splitters know how many chunks there are, and do
\* not start a table that has none left.
Known(t) == setup[t].kind \in {"random", "skip", "lack"}
Started(t) == Known(t) => setup[t].chunks > 0

BarInit(setups) ==
    /\ setup \in setups
    /\ unregistered = {t \in BarTables : Registered(t)}
    /\ producer = [t \in BarTables |-> IF Started(t) THEN "start" ELSE "end"]
    /\ produced = [t \in BarTables |-> 0]
    /\ comparing = [t \in BarTables |-> [taken |-> 0, failed |-> 0, differs |-> FALSE]]
    /\ late = {} /\ optCh = <<>>
    /\ entry = [t \in BarTables |-> NoTable]
    /\ tableMap = {} /\ tableList = {} /\ tableFailList = {}
    /\ progressTableNums = 0 /\ finishTableNums = Finished /\ progress = 0 /\ total = 0
    /\ serving = TRUE

-----------------------------------------------------------------------------
(* Those who send.  A send waits for room in the channel.                  *)

Send(op) == Len(optCh) < OptCap /\ optCh' = Append(optCh, op)

\* RegisterTable.
RegisterTable(t) ==
    /\ t \in unregistered /\ unregistered' = unregistered \ {t}
    /\ Send([op |-> "register", table |-> t, result |-> IF setup[t].reg = "same" THEN {} ELSE {setup[t].reg}])
    /\ UNCHANGED <<setup, producer, produced, comparing, late, entries, counters, serving>>

\* StartTable: the random splitter knows its chunks, and a table whose data is
\* not compared has one, the empty chunk that keeps the checkpoint going.
StartTable(t) ==
    /\ unregistered = {} /\ producer[t] = "start"
    /\ Send([op |-> "start", table |-> t, total |-> IF Known(t) THEN setup[t].chunks ELSE 0, stop |-> Known(t)])
    /\ producer' = [producer EXCEPT ![t] =
          CASE setup[t].kind = "limit" /\ setup[t].chunks = 0 -> "end"
            [] setup[t].kind = "bucket" /\ setup[t].chunks = 0 -> "stop"
            [] Known(t) -> "publish"
            [] OTHER -> "update"]
    /\ UNCHANGED <<setup, unregistered, produced, comparing, late, entries, counters, serving>>

\* UpdateTotal for the next chunk, by the bucket and limit splitters.  The last
\* chunk of the limit splitter is known to be the last.
UpdateTotal(t) ==
    /\ producer[t] = "update"
    /\ Send([op |-> "update", table |-> t, total |-> 1,
             stop |-> setup[t].kind = "limit" /\ produced[t] + 1 = setup[t].chunks])
    /\ producer' = [producer EXCEPT ![t] = "publish"]
    /\ UNCHANGED <<setup, unregistered, produced, comparing, late, entries, counters, serving>>

\* The chunk goes to the workers.
Publish(t) ==
    /\ producer[t] = "publish"
    /\ produced' = [produced EXCEPT ![t] = @ + 1]
    /\ producer' = [producer EXCEPT ![t] =
          CASE produced[t] + 1 = setup[t].chunks -> (IF setup[t].kind = "bucket" THEN "stop" ELSE "end")
            [] setup[t].kind = "random" /\ produced[t] + 1 < setup[t].chunks -> "publish"
            [] OTHER -> "update"]
    /\ UNCHANGED <<setup, unregistered, comparing, late, optCh, entries, counters, serving>>

\* produceChunks of the bucket splitter ends: by then the chunks it published
\* may all be counted.
StopUpdate(t) ==
    /\ producer[t] = "stop"
    /\ Send([op |-> "update", table |-> t, total |-> 0, stop |-> TRUE])
    /\ producer' = [producer EXCEPT ![t] = "end"]
    /\ late' = IF comparing[t].taken = setup[t].chunks THEN late \cup {t} ELSE late
    /\ UNCHANGED <<setup, unregistered, produced, comparing, entries, counters, serving>>

\* A worker: FailTable when the chunk is not equal, then Inc.  consume says of
\* an empty chunk that it is equal, but of that of a table that a side lacks that
\* it is not.
FailTable(t) ==
    /\ comparing[t].taken + comparing[t].failed < produced[t] /\ setup[t].kind # "skip"
    /\ Send([op |-> "fail", table |-> t])
    /\ comparing' = [comparing EXCEPT ![t].failed = @ + 1, ![t].differs = TRUE]
    /\ UNCHANGED <<setup, unregistered, producer, produced, late, entries, counters, serving>>

Inc(t) ==
    /\ Send([op |-> "inc", table |-> t])
    /\ \/ /\ comparing[t].taken + comparing[t].failed < produced[t] /\ setup[t].kind # "lack"
          /\ comparing' = [comparing EXCEPT ![t].taken = @ + 1]
       \/ /\ comparing[t].failed > 0
          /\ comparing' = [comparing EXCEPT ![t].taken = @ + 1, ![t].failed = @ - 1]
    /\ UNCHANGED <<setup, unregistered, producer, produced, late, entries, counters, serving>>

AllSent == unregistered = {} /\ \A t \in BarTables : producer[t] = "end" /\ comparing[t].taken = produced[t]

\* Close, once the comparison is over: it waits for the server.
CloseBar ==
    /\ AllSent /\ serving
    /\ ~\E i \in DOMAIN optCh : optCh[i].op = "close"
    /\ Send([op |-> "close"])
    /\ UNCHANGED <<senders, entries, counters, serving>>

-----------------------------------------------------------------------------
(* serve.                                                                  *)

\* flush(true): what it does to the tables e of the list and the counts, given
\* those of progress and total.
Flush(e, list, p, tot) ==
    LET prestart == {t \in list : e[t].phase = "prestart"}
        skipped == {t \in prestart : e[t].result \in {{"lack"}, {"done"}}}
        going == prestart \ skipped
        done == {t \in list : e[t].phase = "finish"}
    IN /\ entry' = [t \in BarTables |-> IF t \in going THEN [e[t] EXCEPT !.phase = "comparing"] ELSE e[t]]
       /\ tableList' = list \ (skipped \cup done)
       /\ tableFailList' = tableFailList \cup skipped \cup {t \in done : e[t].result # {}}
       /\ progressTableNums' = progressTableNums + Cardinality(going) - Cardinality(done)
       /\ finishTableNums' = finishTableNums + Cardinality(skipped) + Cardinality(done)
       /\ progress' = p /\ total' = tot

Receive(op) == serving /\ optCh # <<>> /\ Head(optCh).op = op /\ optCh' = Tail(optCh)

ServeRegister ==
    /\ Receive("register")
    /\ LET o == Head(optCh) IN
       IF o.table \in tableMap THEN UNCHANGED entries
       ELSE /\ entry' = [entry EXCEPT ![o.table] = [phase |-> "register", result |-> o.result,
                                                    progress |-> 0, total |-> 0, stop |-> FALSE]]
            /\ tableMap' = tableMap \cup {o.table} /\ tableList' = tableList \cup {o.table}
            /\ UNCHANGED tableFailList
    /\ UNCHANGED <<senders, counters, serving>>

\* A table that was not registered shows its structure check as passed over.
\* One whose structure differs is done with: its chunk is not counted.
ServeStart ==
    /\ Receive("start")
    /\ LET o == Head(optCh)
           result == IF o.table \in tableMap THEN entry[o.table].result ELSE {"pass"}
           e == [entry EXCEPT ![o.table] = [phase |-> "prestart", result |-> result,
                                            progress |-> 0, total |-> o.total, stop |-> o.stop]]
       IN /\ tableMap' = IF "done" \in result THEN tableMap \ {o.table} ELSE tableMap \cup {o.table}
          /\ Flush(e, tableList \cup {o.table}, progress, IF "done" \in result THEN total ELSE total + o.total)
    /\ UNCHANGED <<senders, serving>>

ServeUpdate ==
    /\ Receive("update")
    /\ LET o == Head(optCh) IN
       IF o.table \in tableMap
       THEN /\ entry' = [entry EXCEPT ![o.table].total = @ + o.total, ![o.table].stop = o.stop]
            /\ total' = total + o.total
       ELSE UNCHANGED <<entry, total>>
    /\ UNCHANGED <<senders, tableMap, tableList, tableFailList, progressTableNums, finishTableNums, progress, serving>>

ServeFail ==
    /\ Receive("fail")
    /\ LET o == Head(optCh) IN
       entry' = IF o.table \in tableMap THEN [entry EXCEPT ![o.table].result = @ \cup {"different"}] ELSE entry
    /\ UNCHANGED <<senders, tableMap, tableList, tableFailList, counters, serving>>

\* Mutant: what a finished table added to the progress stays in it.
MutFinishTable(t, e) ==
    /\ tableMap' = tableMap \ {t}
    /\ Flush([entry EXCEPT ![t] = [e EXCEPT !.phase = "finish"]], tableList, progress + 1, total - e.total)

FinishTable(t, e) ==
    /\ tableMap' = tableMap \ {t}
    /\ Flush([entry EXCEPT ![t] = [e EXCEPT !.phase = "finish"]], tableList,
             progress + 1 - e.progress, total - e.total)

ServeInc ==
    /\ Receive("inc")
    /\ LET t == Head(optCh).table IN
       IF t \notin tableMap THEN UNCHANGED <<entries, counters>>
       ELSE LET e == [entry[t] EXCEPT !.progress = @ + 1] IN
            IF e.progress >= e.total /\ e.stop THEN FinishTable(t, e)
            ELSE /\ entry' = [entry EXCEPT ![t] = e] /\ progress' = progress + 1
                 /\ UNCHANGED <<tableMap, tableList, tableFailList, progressTableNums, finishTableNums, total>>
    /\ UNCHANGED <<senders, serving>>

ServeClose ==
    /\ Receive("close") /\ serving' = FALSE
    /\ UNCHANGED <<senders, entries, counters>>

BarNext ==
    \/ \E t \in BarTables : \/ RegisterTable(t) \/ StartTable(t) \/ UpdateTotal(t) \/ Publish(t)
                            \/ StopUpdate(t) \/ FailTable(t) \/ Inc(t)
    \/ CloseBar \/ ServeRegister \/ ServeStart \/ ServeUpdate \/ ServeFail \/ ServeInc \/ ServeClose

-----------------------------------------------------------------------------
\* The bar is never filled past its end, whenever it is drawn (a longer one
\* makes strings.Repeat panic).  When the server returns, a table that had a
\* chunk is finished, unless its splitter said that no chunk follows when all
\* were counted already: that table, and no other, stays open.  A table whose
\* structure is the same is among the failed ones just when a worker said so and
\* it does not stay open: that one is missing where the summary lists the tables
\* that differ (progress.go:190, 214).
BarSound ==
    /\ progressTableNums * progress <= (tableNums - finishTableNums) * (total + 1)
    /\ ~serving => \A t \in BarTables : setup[t].chunks > 0 =>
          /\ t \in tableMap <=> t \in late
          /\ t \in tableList <=> t \in late
          /\ setup[t].reg = "same" => (t \in tableFailList <=> comparing[t].differs /\ t \notin late)
=============================================================================
