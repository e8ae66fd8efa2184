----------------------------- MODULE HttpNodes -----------------------------
(***************************************************************************)
(* The nodes of core.openwop.http other than fetch: the loops over a remote  *)
(* (long-poll, retry-rate-limit-aware, the three paginations), the streams    *)
(* (sse-consume, download-stream), the nodes that hand over to the host, the  *)
(* ones that send one request and pass the answer on, the idempotency key,    *)
(* and the circuit breaker of the module CircuitBreaker. The nodes share no    *)
(* state but the breaker's, so a behaviour is either calls through a breaker   *)
(* or one run of one other node; each step is what happens between two awaits. *)
(***************************************************************************)
EXTENDS CircuitBreaker, Integers, SequencesExt

CONSTANTS
  NoAnswer,   \* output of a loop that ran out of tries
  MaxTries,   \* config.maxIterations, config.maxAttempts
  LongestTimer, \* what setTimeout can hold, 2^31 - 1 ms; a longer wait becomes one of 1 ms
  MaxPages,   \* config.maxPages
  PageSize,   \* config.pageSize
  MaxItems,   \* bound on the list a remote has pages of
  Streams,    \* event streams a remote sends: sequences of tokens
  Documents,  \* OpenAPI documents: sequences of operations [route, method, id, params]
  MaxPushed   \* bound on the events a host pushes

\* The schemas of the nodes put no minimum on a limit; one below 0 acts like 0.
ASSUME LimitsAssumption ==
  MaxTries \in Nat /\ LongestTimer \in Nat /\ MaxPages \in Nat /\ PageSize \in Nat /\ MaxItems \in Nat
ASSUME StreamsAssumption == \A s \in Streams : s \in Seq(Range(s))

PollKinds == {"long-poll", "retry-rate-limit-aware"}
PageKinds == {"pagination-cursor", "pagination-offset", "pagination-link-header"}
HostKinds == {"graphql-subscription", "grpc-unary", "grpc-server-stream", "grpc-client-stream",
              "grpc-bidi", "websocket-client", "upload-resumable"}
OnceKinds == {"openapi-call", "graphql-query", "soap-call", "upload-multipart"}
StreamKinds == {"sse-consume", "download-stream"}
Kinds == PollKinds \cup PageKinds \cup HostKinds \cup OnceKinds \cup StreamKinds
           \cup {"circuit-breaker", "idempotency-key"}

VARIABLES
  kind,       \* the node that runs
  remote,     \* what it runs against: the list and the cap of a server, a stream, a document, a host
  phase,      \* "running", "done", or the code of the error thrown
  answers,    \* answers received so far, the pages of a pagination included
  position,   \* offset, cursor or url of the next page; tokens read of a stream
  waits,      \* how long each wait was, in seconds
  buffer,     \* what is left of a stream after its last complete event
  events,     \* events of a stream or of the host, and the chunks of a download
  output      \* what the node returns

nodeVars == <<kind, remote, phase, answers, position, waits, buffer, events, output>>
vars == <<breakerVars, nodeVars>>

Min2(a, b) == IF a < b THEN a ELSE b
Max2(a, b) == IF a > b THEN a ELSE b

Running(kinds) == kind \in kinds /\ phase = "running"
\* The node returns.
Finish(result) == phase' = "done" /\ output' = result
\* The node goes on.
GoOn == UNCHANGED <<phase, output>>
\* A rejection nothing catches: the node throws, and what it had is gone.
Fail(code) == phase' = code /\ UNCHANGED output

-----------------------------------------------------------------------------
(* Answers.                                                                 *)

Statuses == {"ok", "client", "limited", "server"}
ContentTypes == {"json", "text", "other"}
Payloads == {"empty", "invalid", "null", "[]", "value"}

\* The body bareFetch makes of a payload: JSON that does not parse is null, and
\* anything that is not JSON is a string, the empty one included.
BodyOf(type, payload) ==
  IF type # "json" THEN IF payload = "empty" THEN "emptyString" ELSE "string"
  ELSE IF payload \in {"empty", "invalid", "null"} THEN "null"
  ELSE payload

Absent == [form |-> "absent", value |-> 0]
\* The header retry-after: absent, seconds, a date so many seconds from now, or a
\* text that is neither.
RetryAfters ==
  {Absent, [form |-> "garbled", value |-> 0]}
    \cup [form : {"seconds"}, value : {-1, 0, 3, LongestTimer + 1}]
    \cup [form : {"date"}, value : {-1, 2, LongestTimer + 1}]

bareFetch(status, type, payload, after) ==
  [status |-> status, body |-> BodyOf(type, payload), after |-> after]

\* Faulty variant: any 2xx with a body ends the poll.
AnyBody(answer) == answer.status = "ok" /\ answer.body # "null"
\* longPoll ends on a 2xx with a body that is not an empty array.
IsNews(answer) == answer.status = "ok" /\ answer.body \notin {"null", "[]"}

\* Faulty variant: only a server error is tried again.
NotServerError(answer) == answer.status # "server"
\* retryRateLimitAware ends on anything but 429 and 5xx.
IsFinal(answer) == answer.status \notin {"limited", "server"}

Accepts(answer) == IF kind = "long-poll" THEN IsNews(answer) ELSE IsFinal(answer)

\* What setTimeout makes of a delay, in seconds: one it cannot hold and one below 0, like
\* the NaN of a garbled date, become 1 ms.
Timer(delay) == IF delay \in 0..LongestTimer THEN delay ELSE 0

\* The wait before the next attempt: the interval of long-poll, which does not read the
\* header; what the header asks for; or a delay that doubles, up to one base delay
\* longer by chance.
WaitsAfter(answer, attempt) ==
  IF kind = "long-poll" THEN {1}
  ELSE IF answer.after.form = "garbled" THEN {0}
  ELSE IF answer.after.form = "seconds" THEN {Timer(answer.after.value)}
  ELSE IF answer.after.form = "date" THEN {Timer(Max2(0, answer.after.value))}
  ELSE {Timer(2 ^ (attempt - 1)), Timer(2 ^ (attempt - 1) + 1)}

\* The replies that tell the kinds of loop apart.
PollReplies ==
  IF kind = "long-poll"
    THEN {bareFetch(s, t, p, a) : s \in Statuses, t \in ContentTypes, p \in Payloads,
                                  a \in {Absent, [form |-> "seconds", value |-> 3]}}
    ELSE {bareFetch(s, "json", "value", a) : s \in Statuses, a \in RetryAfters}

\* One turn of the loop: the last answer is waited on like the others before the node
\* says that its tries are exhausted.
Poll ==
  /\ Running(PollKinds)
  /\ \E answer \in PollReplies :
       /\ answers' = Append(answers, answer)
       /\ \/ Accepts(answer) /\ Finish(answer) /\ UNCHANGED waits
          \/ /\ ~Accepts(answer)
             /\ \E w \in WaitsAfter(answer, Len(answers) + 1) : waits' = Append(waits, w)
             /\ IF Len(answers) + 1 < MaxTries THEN GoOn ELSE Finish(NoAnswer)
  /\ UNCHANGED <<kind, remote, position, buffer, events>>

-----------------------------------------------------------------------------
(* Paginations. The remote has items 1..remote.items and gives at most       *)
(* remote.cap of them at once; a position is how many of them come before.    *)

NoPage == -1

\* The items of a page, and where the next one begins.
PageAt(start) ==
  LET asked == IF kind = "pagination-offset" THEN Min2(PageSize, remote.cap) ELSE remote.cap
      last == Min2(start + asked, remote.items)
  IN  [status |-> "ok", items |-> [i \in 1..(Max2(last, start) - start) |-> start + i],
       next |-> IF last < remote.items THEN last ELSE NoPage]

ErrorPage == [status |-> "server", items |-> <<>>, next |-> NoPage]

\* Faulty variant: the offset grows by one page number.
NextPageNumber(page) == IF kind = "pagination-offset" THEN IF Len(page.items) < PageSize THEN NoPage ELSE position + 1 ELSE page.next
\* Where the node goes on: an offset as long as the page is full, the cursor or the
\* link of the answer as long as there is one.
NextPosition(page) ==
  IF kind = "pagination-offset"
    THEN IF Len(page.items) < PageSize THEN NoPage ELSE position + Len(page.items)
    ELSE page.next

FetchPage ==
  /\ Running(PageKinds)
  /\ \E page \in {PageAt(position), ErrorPage} :
       /\ answers' = Append(answers, page)
       /\ position' = NextPosition(page)
       /\ IF position' # NoPage /\ Len(answers) + 1 < MaxPages THEN GoOn ELSE Finish("pages")
  /\ UNCHANGED <<kind, remote, waits, buffer, events>>

-----------------------------------------------------------------------------
(* Streams: tokens are field names, text and the end of a line.              *)

\* A text that was cut goes on with a token: an empty line ends a block.
CutOn(cut, token) ==
  IF token = "nl" /\ cut.left # <<>> /\ Last(cut.left) = "nl"
    THEN [blocks |-> Append(cut.blocks, Front(cut.left)), left |-> <<>>]
    ELSE [blocks |-> cut.blocks, left |-> Append(cut.left, token)]

\* The blocks of a text, cut at every empty line, and what is left.
Cut(text) ==
  LET cut[n \in 0..Len(text)] ==
        IF n = 0 THEN [blocks |-> <<>>, left |-> <<>>] ELSE CutOn(cut[n - 1], text[n])
  IN  cut[Len(text)]

Lines(block) ==
  LET cut == FoldLeft(LAMBDA acc, token :
                        IF token = "nl" THEN [lines |-> Append(acc.lines, acc.line), line |-> <<>>]
                        ELSE [acc EXCEPT !.line = Append(@, token)],
                      [lines |-> <<>>, line |-> <<>>], block)
  IN  Append(cut.lines, cut.line)

\* The event of a block: data lines are joined, of other fields the last one counts,
\* and a line without a field name is ignored.
EventOf(block) ==
  FoldLeft(LAMBDA event, line :
             IF line = <<>> THEN event
             ELSE CASE Head(line) = "data:" ->
                         [event EXCEPT !.data = IF @ = <<>> THEN Tail(line) ELSE @ \o <<"nl">> \o Tail(line)]
                    [] Head(line) = "id:" -> [event EXCEPT !.id = Tail(line)]
                    [] OTHER -> event,
           [data |-> <<>>, id |-> <<>>], Lines(block))

EventsOf(text) == LET blocks == Cut(text).blocks IN [i \in DOMAIN blocks |-> EventOf(blocks[i])]

\* Faulty variant: what follows the last complete event of a chunk is dropped.
BufferNothing(text) == <<>>
\* What is kept for the next chunk.
Buffer(text) == Cut(text).left

Chunk(length) == SubSeq(remote.stream, position + 1, position + length)

ReadEvents ==
  /\ Running({"sse-consume"})
  /\ \E length \in 1..(Len(remote.stream) - position) :
       LET text == buffer \o Chunk(length)
       IN  /\ events' = events \o EventsOf(text)
           /\ buffer' = Buffer(text)
           /\ position' = position + length
  /\ UNCHANGED <<kind, remote, phase, answers, waits, output>>

\* The stream ends, or the timer of config.durationMs aborts it: the node returns its
\* events, without the one that is incomplete.
StreamEnds ==
  /\ Running({"sse-consume"})
  /\ Finish(Len(events))
  /\ UNCHANGED <<kind, remote, answers, position, waits, buffer, events>>

\* A download keeps its chunks and the bytes it has received.
ReadBytes ==
  /\ Running({"download-stream"})
  /\ \E length \in 1..(Len(remote.stream) - position) :
       /\ events' = Append(events, Chunk(length))
       /\ position' = position + length
  /\ UNCHANGED <<kind, remote, phase, answers, waits, buffer, output>>

DownloadEnds ==
  /\ Running({"download-stream"})
  /\ position = Len(remote.stream)
  /\ Finish([total |-> position, content |-> FlattenSeq(events)])
  /\ UNCHANGED <<kind, remote, answers, position, waits, buffer, events>>

-----------------------------------------------------------------------------
(* Nodes with one request, and nodes that hand over to the host.             *)

\* The first operation of the document with the id asked for.
OpenapiMatches(document, id) == {i \in DOMAIN document : document[i].id = id}

\* The request of openapi-call: placeholders without a parameter stay in the route,
\* and a GET has no body.
OpenapiRequest(operation, params, hasBody) ==
  [route |-> operation.route, unfilled |-> operation.params \ params,
   method |-> operation.method, body |-> hasBody /\ operation.method # "GET"]

openapiCall ==
  /\ Running({"openapi-call"})
  /\ LET found == OpenapiMatches(remote.document, remote.operationId)
     IN  IF found = {} THEN Fail("CONFIG_INVALID")
         ELSE \E status \in Statuses, hasBody \in BOOLEAN, params \in SUBSET {"id"} :
                LET first == CHOOSE i \in found : \A j \in found : i <= j
                IN  Finish([request |-> OpenapiRequest(remote.document[first], params, hasBody),
                            status |-> status])
  /\ UNCHANGED <<kind, remote, answers, position, waits, buffer, events>>

\* graphql-query and graphql-mutation: data and errors of the body, or null.
graphqlQuery ==
  /\ Running({"graphql-query"})
  /\ \E status \in Statuses, has \in SUBSET {"data", "errors"} :
       Finish([status |-> status, given |-> has])
  /\ UNCHANGED <<kind, remote, answers, position, waits, buffer, events>>

\* soap-call and upload-multipart: the answer, whatever its status.
SendOnce ==
  /\ Running({"soap-call", "upload-multipart"})
  /\ \E status \in Statuses : Finish([status |-> status])
  /\ UNCHANGED <<kind, remote, answers, position, waits, buffer, events>>

\* A request, or the reading of a stream, rejects: no node but the breaker catches it.
\* (sse-consume does not take an abort for a rejection: StreamEnds.)
RequestRejects ==
  /\ Running(PollKinds \cup PageKinds \cup StreamKinds \cup OnceKinds)
  /\ Fail("threw")
  /\ UNCHANGED <<kind, remote, answers, position, waits, buffer, events>>

\* The nodes whose events the host pushes; the others only get a result.
Pushing == HostKinds \ {"grpc-unary", "upload-resumable"}

HostMissing ==
  /\ Running(HostKinds) /\ ~remote.offered
  /\ Fail("HOST_CAPABILITY_MISSING")
  /\ UNCHANGED <<kind, remote, answers, position, waits, buffer, events>>

HostPushes ==
  /\ Running(Pushing) /\ remote.offered /\ Len(events) < MaxPushed
  /\ events' = Append(events, Len(events) + 1)
  /\ UNCHANGED <<kind, remote, phase, answers, position, waits, buffer, output>>

HostSettles ==
  /\ Running(HostKinds) /\ remote.offered
  /\ \/ Finish(Len(events))
     \/ Fail("threw")
  /\ UNCHANGED <<kind, remote, answers, position, waits, buffer, events>>

\* idempotency-key: composite keys cover run, node and payload, hash keys the payload.
idempotencyKey ==
  /\ Running({"idempotency-key"})
  /\ \/ \E run \in {"run", ""}, payload \in Payloads :
          Finish([run |-> run, node |-> "node", payload |-> payload])
     \/ \E payload \in Payloads : Finish([payload |-> payload])
     \/ Fail("CONFIG_INVALID")
  /\ UNCHANGED <<kind, remote, answers, position, waits, buffer, events>>

-----------------------------------------------------------------------------
(* Behaviours.                                                              *)

Remotes(k) ==
  IF k \in PageKinds THEN [items : 0..MaxItems, cap : 1..(PageSize + 1), start : 0..1]
  ELSE IF k \in StreamKinds THEN [stream : Streams]
  ELSE IF k = "openapi-call" THEN [document : Documents, operationId : {"get", "put"}]
  ELSE IF k \in HostKinds THEN [offered : BOOLEAN]
  ELSE {"any"}

\* A loop whose limit is 0 does not send a request.
NeverTurns ==
  \/ kind \in PollKinds /\ MaxTries = 0
  \/ kind \in PageKinds /\ MaxPages = 0

Init ==
  /\ BreakerInit
  /\ kind \in Kinds /\ remote \in Remotes(kind)
  /\ phase = IF NeverTurns THEN "done" ELSE "running"
  /\ answers = <<>> /\ waits = <<>> /\ buffer = <<>> /\ events = <<>>
  /\ position = IF kind \in {"pagination-offset", "pagination-cursor"} THEN remote.start ELSE 0
  /\ output = IF NeverTurns /\ kind \in PageKinds THEN "pages" ELSE NoAnswer

NodeNext ==
  \/ Poll \/ FetchPage
  \/ ReadEvents \/ StreamEnds \/ ReadBytes \/ DownloadEnds
  \/ openapiCall \/ graphqlQuery \/ SendOnce \/ RequestRejects
  \/ HostMissing \/ HostPushes \/ HostSettles
  \/ idempotencyKey

Next ==
  \/ kind = "circuit-breaker" /\ BreakerNext /\ UNCHANGED nodeVars
  \/ NodeNext /\ UNCHANGED breakerVars

Spec == Init /\ [][Next]_vars

-----------------------------------------------------------------------------
(* Properties.                                                              *)

Good == {i \in DOMAIN answers : Accepts(answers[i])}

\* The wait an answer asks retry-rate-limit-aware for, where a timer can hold it.
WaitAsked(answer) ==
  IF kind = "long-poll" \/ answer.after.value > LongestTimer THEN 0 ELSE answer.after.value

\* A polling or retrying node ends at the first answer worth having: it returns that
\* one, and says "exhausted" only after MaxTries answers that all called for another
\* try. Between two tries retry-rate-limit-aware waits at least as long as the answer
\* asked for, unless no timer holds that long; of the waits of long-poll, which reads
\* no Retry-After, nothing is said (retryRateLimitAware, longPoll).
EndsAtFirstGoodAnswer ==
  kind \in PollKinds /\ phase = "done" =>
    /\ \A i \in DOMAIN waits : waits[i] >= WaitAsked(answers[i])
    /\ \/ output = NoAnswer /\ Len(answers) = MaxTries /\ Good = {}
       \/ /\ output = Last(answers) /\ Len(waits) = Len(answers) - 1
          /\ output.status \notin {"limited", "server"}
          /\ kind = "long-poll" => output.status = "ok" /\ output.body \notin {"null", "[]"}
          /\ Good = {Len(answers)}

ItemsSeen == FlattenSeq([i \in DOMAIN answers |-> answers[i].items])
StartedAt == IF kind = "pagination-link-header" THEN 0 ELSE remote.start

\* A pagination returns the items from its start on in order, none left out and none
\* twice, over any page sizes of the server; and all of them, unless a page failed, the
\* page limit was reached, or the server gives fewer items than an offset was told to ask for.
PagesCoverTheList ==
  kind \in PageKinds =>
    /\ \A i \in DOMAIN ItemsSeen : ItemsSeen[i] = StartedAt + i
    /\ \/ phase # "done" \/ Len(answers) = MaxPages
       \/ \E i \in DOMAIN answers : answers[i].status # "ok"
       \/ kind = "pagination-offset" /\ remote.cap < PageSize
       \/ Len(ItemsSeen) = Max2(remote.items - StartedAt, 0)

\* What an event stream says does not depend on how the network cuts it: the events
\* are those of the text read so far, and a download is the content that was sent.
StreamIsChunkBlind ==
  /\ kind = "sse-consume" => events = EventsOf(SubSeq(remote.stream, 1, position))
  /\ kind = "download-stream" /\ phase = "done" => output.content = remote.stream
=============================================================================
