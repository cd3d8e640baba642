------------------------------- MODULE FanOut -------------------------------
(***************************************************************************)
(* One request of a client that many engines serve: the cluster starts a   *)
(* goroutine for every engine concerned, waits for all of them and makes   *)
(* one answer of what they report (Pull, Load, Import, RemoveImages,       *)
(* CreateVolume, RemoveVolumes and, one engine after the other, TagImage   *)
(* of cluster/swarm/cluster.go, with their handlers in api/handlers.go).   *)
(*                                                                         *)
(* A goroutine is a pair of an engine and a number: RemoveImages starts    *)
(* one for every image of the engine's list that matches, the others one   *)
(* for every engine.  What the daemon holds is one bit for every engine:   *)
(* whether it has the image or volume the request is about.  Load and      *)
(* Import also copy the client's stream to all engines through pipes,      *)
(* chunk by chunk, one pipe after the other (io.MultiWriter).              *)
(***************************************************************************)
EXTENDS Integers, Sequences, FiniteSets

CONSTANTS
  Engines,     \* the validated engines
  MaxMatches,  \* images of each engine that match the name of a removal
  Chunks       \* length of the image a client sends

ASSUME FanOutAssumption ==
  IsFiniteSet(Engines) /\ Chunks \in Nat /\ MaxMatches \in [Engines -> Nat \ {0}]

Tasks == UNION {{e} \X (1 .. MaxMatches[e]) : e \in Engines}
Streams == {"load", "import"}
FanKinds == Streams \cup {"pull", "rmimage", "mkvolume", "rmvolume", "tag"}

VARIABLES
  op,      \* the kind of the request, "none" before it arrives
  step,    \* of each goroutine
  hung,    \* the goroutines whose engine has gone silent
  has,     \* has[e]: the daemon of e has the image or volume
  lists,   \* lists[e]: the manager's list for e holds it
  found,   \* what a goroutine has listed or inspected, not yet applied
  result,  \* what the engine's method returned to the goroutine
  unlisted,\* history: engines where the refresh after the call failed
  got,     \* chunks read from the pipe of each goroutine
  closed,  \* its reader is closed
  copy,    \* io.Copy: what it does, the chunk and the pipe it writes next
  flags,   \* what the callbacks or goroutines have noted for the answer
  answer   \* what the client is told

fanVars == <<op, step, hung, has, lists, found, result, unlisted, got, closed, copy, flags,
             answer>>

FanTypeOK ==
  /\ op \in FanKinds \cup {"none"}
  /\ step \in [Tasks -> {"off", "call", "list", "apply", "report", "done"}]
  /\ hung \subseteq Tasks
  /\ has \in [Engines -> BOOLEAN] /\ lists \in [Engines -> BOOLEAN]
  /\ found \in [Tasks -> BOOLEAN]
  /\ result \in [Tasks -> {"none", "ok", "failed", "mismatch"}]
  /\ unlisted \subseteq Engines
  /\ got \in [Tasks -> 0 .. Chunks] /\ closed \in [Tasks -> BOOLEAN]
  /\ copy \in [does : {"read", "write", "ended"}, chunk : 1 .. Chunks + 1,
               at : 1 .. Cardinality(Engines) + 1]
  /\ copy.does = "write" => copy.at <= Cardinality(Engines)
  /\ flags \subseteq {"errorFound", "nonOSErrorFound", "success"}
  /\ answer \in {"none", "ok", "error", "notfound"}

FanInit ==
  /\ op = "none"
  /\ step = [t \in Tasks |-> "off"]
  /\ hung = {}
  /\ has \in [Engines -> BOOLEAN]
  /\ lists \in [Engines -> BOOLEAN]
  /\ found = [t \in Tasks |-> FALSE]
  /\ result = [t \in Tasks |-> "none"]
  /\ unlisted = {}
  /\ got = [t \in Tasks |-> 0]
  /\ closed = [t \in Tasks |-> FALSE]
  /\ copy = [does |-> "ended", chunk |-> 1, at |-> 1]
  /\ flags = {}
  /\ answer = "none"
-----------------------------------------------------------------------------
(* The engines concerned, and the loops that start their goroutines        *)

\* RemoveImages and TagImage: as many images as match.  The name may also match
\* images the daemon does not mean by it: Match compares prefixes and ignores tags.
MatchingTasks ==
  {ts \in SUBSET Tasks :
     /\ \A t \in ts : \A i \in 1 .. t[2] : <<t[1], i>> \in ts
     /\ \A e \in Engines : lists[e] => <<e, 1>> \in ts}

OneEach(es) == {<<e, 1>> : e \in es}

\* where the list has it
RemoveVolumesTasks == {OneEach({e \in Engines : lists[e]})}

\* everywhere, or where the node of its name or its whitelist allows
CreateVolumeTasks == {OneEach(es) : es \in {Engines} \cup ((SUBSET Engines) \ {{}})}

TasksOf(kind) ==
  CASE kind \in {"rmimage", "tag"} -> MatchingTasks
    [] kind = "rmvolume" -> RemoveVolumesTasks
    [] kind = "mkvolume" -> CreateVolumeTasks
    [] OTHER -> {OneEach(Engines)}

Running == {t \in Tasks : step[t] # "off"}

Start ==
  /\ op = "none"
  /\ \E kind \in FanKinds : \E ts \in TasksOf(kind) :
       /\ op' = kind
       /\ step' = [t \in Tasks |-> IF t \in ts THEN "call" ELSE "off"]
       /\ copy' = [copy EXCEPT !.does = IF kind \in Streams THEN "read" ELSE "ended"]
  /\ UNCHANGED <<hung, has, lists, found, result, unlisted, got, closed, flags, answer>>

\* CreateVolume: the scheduler finds no node
StartNowhere ==
  /\ op = "none"
  /\ op' = "mkvolume" /\ answer' = "error"
  /\ UNCHANGED <<step, hung, has, lists, found, result, unlisted, got, closed, copy, flags>>
-----------------------------------------------------------------------------
(* Load and Import: io.Copy from the client to the pipes, through          *)
(* io.MultiWriter.  A write to a pipe meets a read of its engine or finds  *)
(* the reader closed, and until then it waits.                             *)

PipeOrder ==
  CHOOSE s \in [1..Cardinality(Engines) -> Engines] : \A i, j \in DOMAIN s : s[i] = s[j] => i = j

\* the next chunk, for the first pipe if there is one
NextChunk ==
  IF Engines = {} THEN [copy EXCEPT !.chunk = @ + 1] ELSE [copy EXCEPT !.does = "write"]

\* the next chunk, or the end of the stream, or a failure to read it: then the
\* pipes are closed and their readers see the end of the file
Read ==
  /\ copy.does = "read"
  /\ \/ copy.chunk <= Chunks /\ copy' = NextChunk
     \/ copy' = [copy EXCEPT !.does = "ended"]
  /\ UNCHANGED <<op, step, hung, has, lists, found, result, unlisted, got, closed, flags,
                 answer>>

NextPipe ==
  IF copy.at < Len(PipeOrder)
    THEN [copy EXCEPT !.at = @ + 1]
    ELSE [does |-> "read", chunk |-> copy.chunk + 1, at |-> 1]

Write ==
  /\ copy.does = "write"
  /\ LET t == <<PipeOrder[copy.at], 1>> IN
       \/ /\ step[t] = "call" /\ t \notin hung
          /\ got' = [got EXCEPT ![t] = @ + 1]
          /\ copy' = NextPipe
       \/ /\ closed[t]
          /\ copy' = [copy EXCEPT !.does = "ended"]
          /\ UNCHANGED got
  /\ UNCHANGED <<op, step, hung, has, lists, found, result, unlisted, closed, flags, answer>>
-----------------------------------------------------------------------------
(* The engine's methods                                                    *)

\* the engine goes silent with the request in its hands: no call of a daemon
\* here has a time limit, and a stream is no longer read
Stall(t) ==
  /\ step[t] \in {"call", "list"}
  /\ hung' = hung \cup {t}
  /\ UNCHANGED <<op, step, has, lists, found, result, unlisted, got, closed, copy, flags,
                 answer>>

Goto(t, to) == step' = [step EXCEPT ![t] = to]
Result(t, r) == result' = [result EXCEPT ![t] = r]
Has(e, b) == has' = [has EXCEPT ![e] = b]

\* the daemon does what it is asked and says so; then the lists follow
Succeeds(t, b) ==
  /\ Result(t, "ok") /\ Has(t[1], b)
  /\ Goto(t, "list")
  /\ UNCHANGED lists

\* it reports a failure, perhaps of what it has done all the same
Fails(t, able, b, to) ==
  /\ Result(t, "failed") /\ Goto(t, to)
  /\ UNCHANGED has \/ (able /\ Has(t[1], b))
  /\ UNCHANGED lists

\* the image is for another operating system than the engine's
Mismatch(t) ==
  /\ Result(t, "mismatch") /\ Goto(t, "report")
  /\ UNCHANGED <<has, lists>>

\* it lists the images whatever came of it: "Engine may have deleted some
\* layers and still failed"
RemoveImage(t) ==
  /\ op = "rmimage"
  /\ \/ has[t[1]] /\ Succeeds(t, FALSE)
     \/ Fails(t, has[t[1]], FALSE, "list")

\* the volume is forgotten without a question
RemoveVolume(t) ==
  LET e == t[1] IN
  /\ op = "rmvolume"
  /\ \/ /\ has[e]
        /\ Result(t, "ok") /\ Has(e, FALSE) /\ Goto(t, "report")
        /\ lists' = [lists EXCEPT ![e] = FALSE]
     \/ Fails(t, has[e], FALSE, "report")

CreateVolume(t) ==
  /\ op = "mkvolume"
  /\ Succeeds(t, TRUE) \/ Fails(t, TRUE, TRUE, "report")

Pull(t) ==
  /\ op = "pull"
  /\ Succeeds(t, TRUE) \/ Fails(t, TRUE, TRUE, "report") \/ Mismatch(t)

\* they need the whole stream and its end; a failure may come at any time
LoadOrImport(t) ==
  LET whole == copy.does = "ended" /\ got[t] = Chunks IN
  /\ op \in Streams
  /\ \/ whole /\ Succeeds(t, TRUE)
     \/ Fails(t, whole, TRUE, "report")
     \/ Mismatch(t)

\* TagImage of the cluster goes from engine to engine in one goroutine
TagImage(t) ==
  /\ op = "tag" /\ hung = {} /\ \A u \in Running : step[u] \in {"call", "done"} \/ u = t
  /\ \/ has[t[1]] /\ Succeeds(t, TRUE)
     \/ Fails(t, FALSE, TRUE, "report")

Call(t) ==
  /\ step[t] = "call" /\ t \notin hung
  /\ \/ RemoveImage(t) \/ RemoveVolume(t) \/ CreateVolume(t)
     \/ Pull(t) \/ LoadOrImport(t) \/ TagImage(t)
  /\ UNCHANGED <<op, hung, found, unlisted, got, closed, copy, flags, answer>>

\* RefreshImages, and refreshVolume after CreateVolume: the answer of the
\* daemon first.  Only TagImage minds a failure.
List(t) ==
  /\ step[t] = "list" /\ t \notin hung
  /\ \/ /\ found' = [found EXCEPT ![t] = has[t[1]]]
        /\ step' = [step EXCEPT ![t] = "apply"]
        /\ UNCHANGED <<result, unlisted>>
     \/ /\ step' = [step EXCEPT ![t] = "report"]
        /\ unlisted' = unlisted \cup {t[1]}
        /\ result' = [result EXCEPT ![t] = IF op = "tag" THEN "failed" ELSE @]
        /\ UNCHANGED found
  /\ UNCHANGED <<op, hung, has, lists, got, closed, copy, flags, answer>>

\* ... then, under the engine's lock, the list
ApplyListed(t) ==
  /\ step[t] = "apply"
  /\ lists' = [lists EXCEPT ![t[1]] = found[t]]
  /\ step' = [step EXCEPT ![t] = "report"]
  /\ UNCHANGED <<op, hung, has, found, result, unlisted, got, closed, copy, flags, answer>>
-----------------------------------------------------------------------------
(* What a goroutine notes for the answer                                   *)

\* Mutant: a pull that fails somewhere is an error only if it fails everywhere
PullCallback_Lenient(r) == CASE r = "ok" -> {"success"} [] OTHER -> {"errorFound"}

\* the callback of postImagesCreate, which tells the failures apart
PullCallback(r) ==
  CASE r = "ok" -> {"success"}
    [] r = "failed" -> {"errorFound", "nonOSErrorFound"}
    [] r = "mismatch" -> {"errorFound"}

\* Load and Import recognise the mismatch themselves and report a status
StreamCallback(r) == IF r = "failed" THEN {"errorFound"} ELSE {}

\* errs and out, found, or volume and err of the others
Noted(r) == IF r = "ok" THEN {"success"} ELSE {"errorFound"}

\* Mutant: the reader of a pipe stays open
Report_Open(t) ==
  /\ step[t] = "report"
  /\ flags' = flags \cup (CASE op = "pull" -> PullCallback(result[t])
                            [] op \in Streams -> StreamCallback(result[t])
                            [] OTHER -> Noted(result[t]))
  /\ step' = [step EXCEPT ![t] = "done"]
  /\ UNCHANGED <<op, hung, has, lists, found, result, unlisted, got, closed, copy, answer>>

\* ... and the deferred reader.Close and wg.Done
Report(t) ==
  /\ step[t] = "report"
  /\ flags' = flags \cup (CASE op = "pull" -> PullCallback(result[t])
                            [] op \in Streams -> StreamCallback(result[t])
                            [] OTHER -> Noted(result[t]))
  /\ closed' = [closed EXCEPT ![t] = TRUE]
  /\ step' = [step EXCEPT ![t] = "done"]
  /\ UNCHANGED <<op, hung, has, lists, found, result, unlisted, got, copy, answer>>
-----------------------------------------------------------------------------
(* The answer, after wg.Wait                                               *)

\* postImagesCreate, for a pull: an error of operating system is none if there
\* is a success beside it
PullVerdict ==
  IF "errorFound" \in flags /\ ("success" \notin flags \/ "nonOSErrorFound" \in flags)
    THEN "error" ELSE "ok"

\* postImagesLoad, postImagesCreate for an import, postVolumesCreate
ErrorVerdict == IF "errorFound" \in flags THEN "error" ELSE "ok"

\* deleteImages, deleteVolumes, postTagImage
FoundVerdict ==
  IF "errorFound" \in flags THEN "error"
  ELSE IF "success" \notin flags THEN "notfound" ELSE "ok"

Verdict ==
  CASE op = "pull" -> PullVerdict
    [] op \in Streams \cup {"mkvolume"} -> ErrorVerdict
    [] OTHER -> FoundVerdict

Answer ==
  /\ op # "none" /\ answer = "none" /\ copy.does = "ended"
  /\ \A t \in Running : step[t] = "done"
  /\ answer' = Verdict
  /\ UNCHANGED <<op, step, hung, has, lists, found, result, unlisted, got, closed, copy,
                 flags>>

TaskStep(t) == Call(t) \/ List(t) \/ ApplyListed(t) \/ Report(t)
FanNext ==
  \/ Start \/ StartNowhere \/ Read \/ Write \/ Answer
  \/ \E t \in Tasks : TaskStep(t) \/ Stall(t)

\* a daemon that is sent an image has no reason to end before the image does
Due(t) == op \in Streams /\ step[t] = "call" => copy.does = "ended"

\* every goroutine runs, a daemon that is not silent ends a call that is due,
\* and the client's stream is read to its end or fails
FanFairness ==
  /\ WF_fanVars(Write) /\ WF_fanVars(Read) /\ WF_fanVars(Answer)
  /\ \A t \in Tasks : WF_fanVars(TaskStep(t) /\ Due(t))

FanSpec == FanInit /\ [][FanNext]_fanVars /\ FanFairness
-----------------------------------------------------------------------------
(* Properties                                                              *)

\* What the client is told is what happened: a success when no engine failed
\* (an engine of the wrong operating system aside, for an image), an error
\* when one did, when nobody could pull or no node can hold the volume.  And
\* after a success the manager's lists of images and volumes show it for every
\* engine it touched, unless the refresh after the call failed.
\* (Pull's callback counts errors of operating system apart, CreateVolume
\* keeps the last error of unordered goroutines, RemoveImages and
\* RemoveVolumes join the errors; the methods of Engine refresh before they
\* return.)
ToldTheTruth ==
  LET failed == {t \in Running : result[t] = "failed"}
      ok == {t \in Running : result[t] = "ok"}
  IN /\ answer = "ok" => failed = {} /\ (ok = {} => op \in Streams \/ Engines = {})
     /\ answer = "error" => \/ failed # {} \/ Running = {}
                            \/ op = "pull" /\ ok = {}
     /\ answer = "notfound" => Running = {}
     /\ answer = "ok" => \A t \in ok : lists[t[1]] = has[t[1]] \/ t[1] \in unlisted

\* Every request is answered unless an engine has gone silent: the copy of
\* Load and Import never waits for the pipe of an engine that has ended,
\* because the goroutine of an engine closes its reader on every path.  And a
\* silent engine holds up the answer, but not the work of the others: their
\* goroutines end, unless the copy waits for the silent one's pipe or, for
\* TagImage, it is its turn.
CopyWaits == copy.does = "write" /\ <<PipeOrder[copy.at], 1>> \in hung

Answered ==
  /\ (op # "none") ~> (answer # "none" \/ hung # {})
  /\ \A t \in Tasks : (step[t] = "call") ~>
       (step[t] = "done" \/ t \in hung \/ CopyWaits \/ (op = "tag" /\ hung # {}))
=============================================================================
