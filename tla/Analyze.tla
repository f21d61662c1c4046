------------------------------ MODULE Analyze ------------------------------
(***************************************************************************)
(* POST /api/analyze beside the lists of Pages.                            *)
(*                                                                         *)
(* A caller has a manifest analysed and may name a session the answer is   *)
(* to be linked with.  The API asks the analyzer service, which may take   *)
(* its time, and looks the session up only afterwards: sessions come while *)
(* the analysis runs.                                                      *)
(***************************************************************************)
EXTENDS Pages

CONSTANTS WriteTimeout,     \* of the server, in tens of seconds
          AnalyzerTimeout   \* of the call of the analyzer service

ASSUME AnalyzeConstants == WriteTimeout \in Nat /\ AnalyzerTimeout \in Nat

VARIABLES reader,    \* what this behaviour follows: "pages" or "analysis"
          unnamed,   \* ids of the sessions of an earlier release: they have no correlation id and get none
          job        \* the request to analyze
avars == <<reader, unnamed, job>>

\* why a body is refused before anything else is looked at, and the status
RefusedForms == [media |-> 415, large |-> 413, json |-> 400, cmaf |-> 400, kind |-> 400,
                 empty |-> 400]

\* blank: nothing but white space; bulky: under 1 MiB, yet more than the service's 10^6 bytes
Forms == DOMAIN RefusedForms \cup {"good", "blank", "bulky"}

\* A correlation id is that of the session with this id; names and tokens of nobody are None.
Requests == {r \in [form : Forms, cid : Ids \cup {None}, sid : Ids \cup {None},
                    token : Projects \cup {None}] :
                r.form \in DOMAIN RefusedForms => r.cid = None /\ r.sid = None}

WantsLink(r) == r.cid # None \/ r.sid # None

\* codes the service refuses an analysis with, and a code of a later release
Codes == {"invalid_input", "fetch_blocked", "manifest_not_hls", "manifest_not_supported",
          "fetch_failed", "manifest_too_large", "internal_error", "of_later_release"}

\* what the call may come back with: a verdict, or something that is none
Answers == {"ok"} \cup Codes \cup {"not_2xx", "garbled", "too_long", "strange_status", "nothing"}

Link(status, project, sid, cid) ==
    [status |-> status, project |-> project, sid |-> sid, cid |-> cid]

-----------------------------------------------------------------------------
(* The session store                                                       *)

CorrelationID(x) == IF x.id \in unnamed THEN None ELSE x.id

\* the sessions of the project with this correlation id; none has an empty one
GetByCorrelationID(project, cid) ==
    {x \in rows : x.path = <<project, None>> /\ cid # None /\ CorrelationID(x) = cid}

Get(project, sid) == {x \in rows : x.path = <<project, None>> /\ x.id = sid}

-----------------------------------------------------------------------------
(* The use case                                                            *)

\* (a correlation id nobody knows is rescued by a session id somebody knows)
ResolveByCorrelationIDRescued(r) ==
    IF GetByCorrelationID(r.token, r.cid) = {} /\ Get(r.token, r.sid) # {}
    THEN Link("linked", r.token, r.sid, r.cid)
    ELSE IF \E x \in GetByCorrelationID(r.token, r.cid) : r.sid \in {None, x.id}
    THEN Link("linked", r.token, r.cid, r.cid)
    ELSE Link("not_found_detached", None, None, None)

ResolveByCorrelationID(r) ==
    LET found == GetByCorrelationID(r.token, r.cid) IN
    IF found = {} THEN Link("not_found_detached", None, None, None)
    ELSE LET x == CHOOSE x \in found : TRUE IN
         IF r.sid \in {None, x.id}
         THEN Link("linked", x.path[1], x.id, CorrelationID(x))
         ELSE Link("conflict_detached", None, None, None)

ResolveBySessionID(r) ==
    LET found == Get(r.token, r.sid) IN
    IF found = {} THEN Link("not_found_detached", None, None, None)
    ELSE LET x == CHOOSE x \in found : TRUE IN
         Link("linked", x.path[1], x.id, CorrelationID(x))

\* an error of the store counts as a session that is not found
ResolveSessionLink(r, broken) ==
    CASE ~WantsLink(r) -> Link("detached", None, None, None)
      [] WantsLink(r) /\ broken -> Link("not_found_detached", None, None, None)
      [] r.cid # None /\ ~broken -> ResolveByCorrelationID(r)
      [] OTHER -> ResolveBySessionID(r)

-----------------------------------------------------------------------------
(* The handler and the call of the analyzer service                        *)

\* 200 stands for: go on
ResolveProjectForLinkedRequest(r) ==
    IF WantsLink(r) /\ r.token \notin Projects THEN 401 ELSE 200

PayloadToRequest(r) ==
    IF r.form \in DOMAIN RefusedForms THEN RefusedForms[r.form] ELSE 200

DomainHTTPStatus(code) ==
    CASE code \in {"invalid_input", "fetch_blocked"} -> 400
      [] code \in {"manifest_not_hls", "manifest_not_supported"} -> 422
      [] OTHER -> 502

\* Only a code is passed on; whatever else went wrong is the service's unavailability.
MapAndWriteUseCaseError(answer) == IF answer \in Codes THEN DomainHTTPStatus(answer) ELSE 502

\* the service takes no body of more than 10^6 bytes
ServiceAnswers(r) == IF r.form = "bulky" THEN {"not_2xx", "nothing"} ELSE Answers

\* the sessions a request names, as the store stands
Named(r) == {x \in rows : /\ x.path = <<r.token, None>>
                          /\ r.cid # None => CorrelationID(x) = r.cid
                          /\ r.sid # None => x.id = r.sid}

NoLink == Link("none", None, None, None)

\* The body is read and judged before the token, as the body decides whether one is needed.
ServeHTTP(r) ==
    /\ job.stage = "idle"
    /\ LET checks == {PayloadToRequest(r), ResolveProjectForLinkedRequest(r)} \ {200}
           status == IF checks # {} THEN CHOOSE s \in checks : TRUE
                     ELSE IF r.form = "blank" THEN 400 ELSE 200
       IN  job' = [stage |-> IF status = 200 THEN "calling" ELSE "answered", req |-> r,
                   status |-> status, age |-> 0, link |-> NoLink, broken |-> FALSE,
                   known |-> WantsLink(r) /\ Named(r) # {}]
    /\ UNCHANGED <<reader, unnamed>>

\* The timeout of the server does not end the handler, only what it writes is lost.
Wait ==
    /\ job.stage = "calling" /\ job.age < AnalyzerTimeout
    /\ job' = [job EXCEPT !.age = @ + 1]
    /\ UNCHANGED <<reader, unnamed>>

AnalyzeManifest ==
    /\ job.stage = "calling"
    /\ \E answer \in IF job.age = AnalyzerTimeout THEN {"nothing"} ELSE ServiceAnswers(job.req) :
          job' = IF answer = "ok" THEN [job EXCEPT !.stage = "looking"]
                 ELSE [job EXCEPT !.stage = "answered", !.status = MapAndWriteUseCaseError(answer)]
    /\ UNCHANGED <<reader, unnamed>>

NoJob == [stage |-> "idle", req |-> [form |-> "good", cid |-> None, sid |-> None, token |-> None],
          status |-> 200, age |-> 0, link |-> NoLink, broken |-> FALSE, known |-> FALSE]

\* the session is looked up after the analysis
LookUp ==
    /\ job.stage = "looking"
    /\ \E broken \in BOOLEAN :
          job' = [job EXCEPT !.stage = "answered", !.broken = broken,
                             !.link = ResolveSessionLink(job.req, broken)]
    /\ UNCHANGED <<reader, unnamed>>

\* the next request (requests do not meet: one is followed at a time)
Return ==
    /\ job.stage = "answered"
    /\ job' = NoJob
    /\ UNCHANGED <<reader, unnamed>>

-----------------------------------------------------------------------------

\* A database an earlier release has written to; what is read there does not depend on which.
AnalysisInit ==
    /\ store = "sqlite" /\ list = "sessions" /\ now = 0 /\ stamps = 0
    /\ batch = [w \in Writers |-> {}]
    /\ \E path \in Paths :
          /\ rows \in {{}, {[path |-> path, at |-> 0, seq |-> None, id |-> 1, stamp |-> 0]}}
          /\ walk = Reading(path, None)
    /\ unnamed = {x.id : x \in rows}

ReadInit ==
    /\ job = NoJob
    /\ \/ reader = "pages" /\ unnamed = {} /\ Init
       \/ reader = "analysis" /\ AnalysisInit

ReadNext ==
    \/ reader = "pages" /\ Next /\ UNCHANGED avars
    \/ reader = "analysis" /\ (\E w \in Writers : Receive(w) \/ Show(w) \/ Fail(w))
       /\ UNCHANGED avars
    \/ /\ reader = "analysis"
       /\ Wait \/ AnalyzeManifest \/ LookUp \/ Return \/ \E r \in Requests : ServeHTTP(r)
       /\ UNCHANGED vars

ReadSpec == ReadInit /\ [][ReadNext]_<<vars, avars>>

(* An answer that links the analysis with a session is true of the store,  *)
(* then and later: the session is one of the token's project and all that  *)
(* the request names of it is right; a conflict is one, whatever arrives   *)
(* in the meantime.  And a session that was there when the request came    *)
(* is linked, unless the store fails (resolveSessionLink, status matrix).  *)
LinkIsTrue ==
    job.stage = "answered" =>
        /\ job.link.status = "linked" =>
              \E x \in Named(job.req) : /\ x.id = job.link.sid /\ x.path[1] = job.link.project
                                        /\ job.link.cid \in {None, CorrelationID(x)}
        /\ job.link.status = "conflict_detached" =>
              Named(job.req) = {} /\ GetByCorrelationID(job.req.token, job.req.cid) # {}
        /\ job.known /\ job.link # NoLink /\ ~job.broken => job.link.status = "linked"

(* The caller hears of every outcome the contract lists, of an analyzer    *)
(* that hangs as well: "Der analyzer-service-Pfad bekommt einen            *)
(* 30-Sekunden-Timeout", then 502 (spec/backend-api-contract.md 3.7).      *)
AnswerArrives == job.stage = "answered" => job.age < WriteTimeout
=============================================================================
