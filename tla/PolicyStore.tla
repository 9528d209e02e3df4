----------------------------- MODULE PolicyStore -----------------------------
(***************************************************************************)
(* The settings a user can change while the platform runs: the execution   *)
(* policy and the default URL (api/settings.py, execution_policy.py,       *)
(* platform_settings.py), rows of a table of keys and values. Requests     *)
(* overlap; each step below is a session's read or commit.                 *)
(***************************************************************************)
EXTENDS Integers

CONSTANTS
  Client, Key,       \* the clients that send requests; the keys of the policy
  Low, High,         \* the range of each key (_RANGES)
  Value,             \* values clients send
  Default,           \* what the code gives, or an environment in the ranges
  Url,               \* addresses
  None               \* no row; and, in a request, the wish to have none

ASSUME PolicyAssumption ==
  /\ Low \in [Key -> Int] /\ High \in [Key -> Int] /\ Value \subseteq Int
  /\ Default \in [Key -> Int] /\ \A k \in Key : Low[k] <= Default[k] /\ Default[k] <= High[k]
  /\ None \notin Int \cup Url

VARIABLES
  stored,    \* the rows of the policy keys
  url,       \* the row of the default URL
  rstep,     \* where the request of a client is
  body,      \* the keys it names, with their values
  asked,     \* the default URL it names, None for none
  loaded,    \* the rows its session has read
  loadedUrl, \* the row of the URL its session has read
  before,    \* the policy when it began
  urlBefore, \* the row of the URL then
  alone      \* whether nothing was committed since by another request

requestVars == <<body, asked>>
readVars == <<loaded, loadedUrl>>
beganVars == <<before, urlBefore, alone>>
policyVars == <<stored, url, rstep, requestVars, readVars, beganVars>>

Row == [Key -> Value \cup {None}]
NoBody == [k \in {} |-> None]
Bodies == UNION {[K -> Value \cup {None}] : K \in SUBSET Key}
Blank == [k \in Key |-> None]

PolicyInit ==
  /\ stored = Blank /\ url = None
  /\ rstep = [c \in Client |-> "idle"] /\ body = [c \in Client |-> NoBody]
  /\ asked = [c \in Client |-> None]
  /\ loaded = [c \in Client |-> Blank] /\ before = [c \in Client |-> Blank]
  /\ loadedUrl = [c \in Client |-> None] /\ urlBefore = [c \in Client |-> None]
  /\ alone = [c \in Client |-> TRUE]

To(c, from, to) == rstep[c] = from /\ rstep' = [rstep EXCEPT ![c] = to]
Others(c) ==
  /\ alone' = [d \in Client |-> d = c /\ alone[d]]
  /\ before' = [d \in Client |-> IF d = c THEN before[d] ELSE Blank]
  /\ urlBefore' = [d \in Client |-> IF d = c THEN urlBefore[d] ELSE None]
Forget(c) == loaded' = [loaded EXCEPT ![c] = Blank] /\ UNCHANGED loadedUrl

(* A request arrives, with the default URL or without.                     *)
Put(c, b, u) ==
  /\ To(c, "idle", IF u # None THEN "url" ELSE "validate")
  /\ body' = [body EXCEPT ![c] = b] /\ asked' = [asked EXCEPT ![c] = u]
  /\ before' = [before EXCEPT ![c] = stored] /\ urlBefore' = [urlBefore EXCEPT ![c] = url]
  /\ alone' = [alone EXCEPT ![c] = TRUE]
  /\ UNCHANGED <<stored, url, readVars>>

(* set_default_target_url: the URL is committed before anything else is    *)
(* looked at. Its row is inserted if the session found none, which fails   *)
(* the request if it has appeared since, and updated if it differs.        *)
LoadUrl(c) ==
  /\ To(c, "url", "urlLoaded")
  /\ loadedUrl' = [loadedUrl EXCEPT ![c] = url]
  /\ UNCHANGED <<stored, url, requestVars, loaded, beganVars>>

ForgetUrl(c) == loadedUrl' = [loadedUrl EXCEPT ![c] = None] /\ UNCHANGED loaded
UrlConflict(c) == loadedUrl[c] = None /\ url # None
SetUrl(c) ==
  /\ ~UrlConflict(c) /\ To(c, "urlLoaded", "validate")
  /\ IF loadedUrl[c] = asked[c] THEN UNCHANGED <<url, beganVars>>
                                 ELSE url' = asked[c] /\ Others(c)
  /\ ForgetUrl(c)
  /\ UNCHANGED <<stored, requestVars>>

UrlFails(c) ==
  /\ UrlConflict(c) /\ To(c, "urlLoaded", "failed")
  /\ ForgetUrl(c)
  /\ UNCHANGED <<stored, url, requestVars, beganVars>>

InRange(k, v) == v # None => Low[k] <= v /\ v <= High[k]
(* Mutant of Acceptable: one good value lets the request pass.             *)
AcceptableInPart(b) == DOMAIN b = {} \/ \E k \in DOMAIN b : InRange(k, b[k])
Acceptable(b) == \A k \in DOMAIN b : InRange(k, b[k])

Refuse(c) ==
  /\ ~Acceptable(body[c]) /\ To(c, "validate", "refused")
  /\ UNCHANGED <<stored, url, requestVars, readVars, beganVars>>

Load(c) ==
  /\ Acceptable(body[c]) /\ To(c, "validate", "loaded")
  /\ loaded' = [loaded EXCEPT ![c] =
                  [k \in Key |-> IF k \in DOMAIN body[c] THEN stored[k] ELSE None]]
  /\ UNCHANGED <<stored, url, requestVars, loadedUrl, beganVars>>

(* The session inserts what it found missing, updates and deletes what it  *)
(* found, and leaves alone what it found equal. An insert of a row that    *)
(* has appeared or an update of one that has gone fails all of it.         *)
Inserts(c, k) == loaded[c][k] = None /\ body[c][k] # None
Updates(c, k) == loaded[c][k] # None /\ body[c][k] \notin {None, loaded[c][k]}
Deletes(c, k) == loaded[c][k] # None /\ body[c][k] = None
Conflict(c) ==
  \E k \in DOMAIN body[c] : \/ Inserts(c, k) /\ stored[k] # None
                            \/ Updates(c, k) /\ stored[k] = None

Store(c) ==
  /\ ~Conflict(c) /\ To(c, "loaded", "stored")
  /\ stored' = [k \in Key |->
       IF k \in DOMAIN body[c] /\ (Inserts(c, k) \/ Updates(c, k) \/ Deletes(c, k))
         THEN body[c][k] ELSE stored[k]]
  /\ IF stored' = stored THEN UNCHANGED beganVars ELSE Others(c)
  /\ Forget(c)
  /\ UNCHANGED <<url, requestVars>>

StoreFails(c) ==
  /\ Conflict(c) /\ To(c, "loaded", "failed") /\ Forget(c)
  /\ UNCHANGED <<stored, url, requestVars, beganVars>>

(* The client has its answer.                                              *)
Answered(c) ==
  /\ rstep[c] \in {"stored", "refused", "failed"}
  /\ rstep' = [rstep EXCEPT ![c] = "idle"]
  /\ body' = [body EXCEPT ![c] = NoBody] /\ asked' = [asked EXCEPT ![c] = None]
  /\ before' = [before EXCEPT ![c] = Blank] /\ urlBefore' = [urlBefore EXCEPT ![c] = None]
  /\ alone' = [alone EXCEPT ![c] = TRUE]
  /\ UNCHANGED <<stored, url, readVars>>

PolicyNext ==
  \E c \in Client :
    \/ \E b \in Bodies, u \in Url \cup {None} : Put(c, b, u)
    \/ LoadUrl(c) \/ SetUrl(c) \/ UrlFails(c)
    \/ Refuse(c) \/ Load(c) \/ Store(c) \/ StoreFails(c) \/ Answered(c)

PolicySpec == PolicyInit /\ [][PolicyNext]_policyVars

-----------------------------------------------------------------------------
PolicyTypeOK ==
  /\ stored \in Row /\ url \in Url \cup {None}
  /\ rstep \in [Client -> {"idle", "url", "urlLoaded", "validate", "loaded", "stored", "refused",
                         "failed"}]
  /\ body \in [Client -> Bodies] /\ asked \in [Client -> Url \cup {None}]
  /\ loadedUrl \in [Client -> Url \cup {None}] /\ urlBefore \in [Client -> Url \cup {None}]
  /\ loaded \in [Client -> Row] /\ before \in [Client -> Row]
  /\ alone \in [Client -> BOOLEAN]

(* get_execution_policy.                                                   *)
InForce(k) == IF stored[k] = None THEN Default[k] ELSE stored[k]

(* Every policy a tick or a worker can read is one the orchestrator and    *)
(* the agent can work with: attempts and steps of at least one, and so on. *)
LimitsInForce == \A k \in Key : Low[k] <= InForce(k) /\ InForce(k) <= High[k]

(* A request nobody else interferes with is done as a whole, or it is      *)
(* refused and no key has changed; the default URL is as asked either way. *)
AllOrNothing ==
  \A c \in Client : alone[c] =>
    /\ rstep[c] = "stored" =>
         stored = [k \in Key |-> IF k \in DOMAIN body[c] THEN body[c][k] ELSE before[c][k]]
    /\ rstep[c] = "refused" => stored = before[c]
    /\ rstep[c] \in {"stored", "refused"} =>
         url = IF asked[c] # None THEN asked[c] ELSE urlBefore[c]
    /\ rstep[c] # "failed"

(* Both of them: the policy in force is sound and what was asked for.      *)
PolicyAsAsked == LimitsInForce /\ AllOrNothing
=============================================================================
