------------------------------ MODULE CaseBook ------------------------------
(***************************************************************************)
(* The table of test cases and the sessions that change it: creation,      *)
(* edits, deletion and cure by the user (api/cases.py), the recordings of  *)
(* workers (_maybe_cure), and the numbering of old rows when a process     *)
(* starts (init_db), of several nodes perhaps. A session reads a row and   *)
(* commits later the columns that it has changed. Contents are numbers, a  *)
(* new one for each change; the other columns, and version, are as good as *)
(* any of these.                                                           *)
(***************************************************************************)
EXTENDS Naturals, FiniteSets, FiniteSetsExt

CONSTANTS
  Case,              \* the ids of cases
  Ancient,           \* those that are created by a version without numbers
  Age,               \* their created_at
  Node,              \* the processes that start
  Session, NoCase,
  MaxChanges         \* bound on the contents written

ASSUME BookAssumption ==
  /\ IsFiniteSet(Case) /\ Ancient \subseteq Case /\ NoCase \notin Case /\ MaxChanges \in Nat
  /\ Age \in [Case -> Nat]

VARIABLES
  rows,      \* the cases that exist
  gone,      \* those that were deleted
  number,    \* case_no, 0 for NULL
  indexed,   \* the unique index exists
  boot,      \* how far the start of a process has come; "off" before and after
  found,     \* the rows without a number that it has found
  highest,   \* the highest number that it has found
  quiet,     \* whether no row was added or numbered since
  steps, recording, mode,            \* columns (recording: cured_actions)
  job,       \* what a session is about to commit
  on,        \* its case
  read,      \* the row it has read, or the number it is going to give
  changes,   \* contents so far
  latest     \* the contents committed last: by an edit or a cure, by a recording

columns == <<steps, recording, mode>>
sessionVars == <<job, on, read>>
historyVars == <<changes, latest>>
startVars == <<boot, found, highest, quiet>>
bookVars == <<rows, gone, number, indexed, startVars, columns, sessionVars, historyVars>>

Mode == {"agentic", "deterministic"}
NoRead == [number |-> 0, steps |-> 0, recording |-> 0, mode |-> "agentic"]
RowOf(c) == [NoRead EXCEPT !.steps = steps[c], !.recording = recording[c], !.mode = mode[c]]

BookInit ==
  /\ rows = {} /\ gone = {} /\ number = [c \in Case |-> 0] /\ indexed = FALSE
  /\ boot = [n \in Node |-> "off"] /\ found = [n \in Node |-> {}]
  /\ highest = [n \in Node |-> 0] /\ quiet = [n \in Node |-> FALSE]
  /\ steps = [c \in Case |-> 0] /\ recording = [c \in Case |-> 0]
  /\ mode = [c \in Case |-> "agentic"]
  /\ job = [s \in Session |-> "none"] /\ on = [s \in Session |-> NoCase]
  /\ read = [s \in Session |-> NoRead]
  /\ changes = 0
  /\ latest = [c \in Case |-> [steps |-> 0, recording |-> 0]]

Highest == Max({number[c] : c \in rows} \cup {0})
Missing == {c \in rows : number[c] = 0}
Unused == Case \ (rows \cup gone \cup {on[s] : s \in Session})

NobodyQuiet == quiet' = [n \in Node |-> FALSE]

(* A process of an older version, during an upgrade, adds a case.          *)
CreateAncient(c) ==
  /\ c \in Unused \cap Ancient
  /\ rows' = rows \cup {c} /\ NobodyQuiet
  /\ UNCHANGED <<gone, number, indexed, boot, found, highest, columns, sessionVars, historyVars>>

(* _backfill_case_no, when a process starts (again): it selects the rows   *)
(* without a number, there being any, and then the highest number.         *)
(* Others commit in between (in PostgreSQL, and in SQLite other processes).*)
SelectMissing(n) ==
  /\ boot[n] = "off" /\ Missing # {}
  /\ boot' = [boot EXCEPT ![n] = "selected"]
  /\ found' = [found EXCEPT ![n] = Missing]
  /\ quiet' = [quiet EXCEPT ![n] = TRUE]
  /\ UNCHANGED <<rows, gone, number, indexed, highest, columns, sessionVars, historyVars>>

SelectHighest(n) ==
  /\ boot[n] = "selected"
  /\ boot' = [boot EXCEPT ![n] = "counted"]
  /\ highest' = [highest EXCEPT ![n] = Highest]
  /\ UNCHANGED <<rows, gone, number, indexed, found, quiet, columns, sessionVars, historyVars>>

(* The rows it has found get the next numbers in the order of created_at.  *)
(* Mutant: they are counted from one.                                      *)
Ranks(C) == {f \in [C -> 1 .. Cardinality(C)] :
               \A c, d \in C : /\ f[c] = f[d] => c = d
                               /\ Age[c] < Age[d] => f[c] < f[d]}
FromOne(n) == Ranks(found[n])
Numbering(n) == {[c \in found[n] |-> highest[n] + f[c]] : f \in Ranks(found[n])}

(* Each UPDATE is refused by the index, if there is one: by a number of a  *)
(* row not found, or of one whose turn comes later. Else the creation of   *)
(* the index is refused, by any two rows with the same number.             *)
Numbered(f) == [c \in Case |-> IF c \in DOMAIN f \cap rows THEN f[c] ELSE number[c]]
Distinct(f) == \A c, d \in rows : f[c] = f[d] /\ f[c] # 0 => c = d
TurnComes(f, c, d) == d \notin DOMAIN f \/ f[c] < f[d]
Accepted(f) ==
  IF indexed THEN \A c \in DOMAIN f \cap rows : \A d \in rows \ {c} :
                    TurnComes(f, c, d) => number[d] # f[c]
             ELSE Distinct(Numbered(f))

(* UPDATEs, index and commit, which nobody sees a part of.                 *)
NumberFound(n) ==
  /\ boot[n] = "counted"
  /\ \E f \in Numbering(n) : Accepted(f) /\ number' = Numbered(f)
  /\ indexed' = TRUE
  /\ boot' = [boot EXCEPT ![n] = "off"]
  /\ NobodyQuiet
  /\ found' = [found EXCEPT ![n] = {}] /\ highest' = [highest EXCEPT ![n] = 0]
  /\ UNCHANGED <<rows, gone, columns, sessionVars, historyVars>>

(* The transaction is rolled back and the process does not start.          *)
StartFails(n) ==
  /\ boot[n] = "counted"
  /\ \E f \in Numbering(n) : ~Accepted(f)
  /\ boot' = [boot EXCEPT ![n] = "off"]
  /\ quiet' = [quiet EXCEPT ![n] = FALSE]
  /\ found' = [found EXCEPT ![n] = {}] /\ highest' = [highest EXCEPT ![n] = 0]
  /\ UNCHANGED <<rows, gone, number, indexed, columns, sessionVars, historyVars>>

Open(s, what, c, r) ==
  /\ job[s] = "none"
  /\ job' = [job EXCEPT ![s] = what]
  /\ on' = [on EXCEPT ![s] = c]
  /\ read' = [read EXCEPT ![s] = r]

End(s, what) ==
  /\ job[s] = what
  /\ job' = [job EXCEPT ![s] = "none"]
  /\ on' = [on EXCEPT ![s] = NoCase]
  /\ read' = [read EXCEPT ![s] = NoRead]

(* create_case takes the highest number and one ...                        *)
CreateRead(s, c) ==
  /\ c \in Unused \ Ancient
  /\ Open(s, "create", c, [NoRead EXCEPT !.number = Highest + 1])
  /\ UNCHANGED <<rows, gone, number, indexed, startVars, columns, historyVars>>

(* ... and another session may have done so too. The index refuses that.   *)
CreateCommit(s) ==
  /\ indexed => \A c \in rows : number[c] # read[s].number
  /\ End(s, "create")
  /\ rows' = rows \cup {on[s]}
  /\ number' = [number EXCEPT ![on[s]] = read[s].number] /\ NobodyQuiet
  /\ UNCHANGED <<gone, indexed, boot, found, highest, columns, historyVars>>

Refused(s) ==
  /\ indexed /\ \E c \in rows : number[c] = read[s].number
  /\ End(s, "create")
  /\ UNCHANGED <<rows, gone, number, indexed, startVars, columns, historyVars>>

(* update_case, cure_case, delete_case and _maybe_cure load the row.       *)
Read(s, what, c) ==
  /\ c \in rows /\ changes < MaxChanges
  /\ what = "cure" => recording[c] # 0
  /\ Open(s, what, c, RowOf(c))
  /\ UNCHANGED <<rows, gone, number, indexed, startVars, columns, historyVars>>

(* UPDATE of the columns whose new value differs from the one loaded.      *)
(* Mutant: of all columns.                                                 *)
SaveAll(s, new) ==
  /\ steps' = [steps EXCEPT ![on[s]] = new.steps]
  /\ recording' = [recording EXCEPT ![on[s]] = new.recording]
  /\ mode' = [mode EXCEPT ![on[s]] = new.mode]
  /\ UNCHANGED <<rows, gone, number, indexed, startVars>>
Save(s, new) ==
  LET Changed(old, was, is) == IF was = is THEN old ELSE [old EXCEPT ![on[s]] = is] IN
  /\ steps' = Changed(steps, read[s].steps, new.steps)
  /\ recording' = Changed(recording, read[s].recording, new.recording)
  /\ mode' = Changed(mode, read[s].mode, new.mode)
  /\ UNCHANGED <<rows, gone, number, indexed, startVars>>

Content == changes + 1
Wrote(s, column, content) == latest' = [latest EXCEPT ![on[s]][column] = content]

EditCommit(s, m) ==
  /\ End(s, "edit") /\ on[s] \in rows
  /\ Save(s, [read[s] EXCEPT !.steps = Content, !.mode = m])
  /\ Wrote(s, "steps", Content) /\ changes' = Content

CureCommit(s) ==
  /\ End(s, "cure") /\ on[s] \in rows
  /\ Save(s, [read[s] EXCEPT !.steps = read[s].recording, !.mode = "deterministic"])
  /\ IF read[s].steps # read[s].recording THEN Wrote(s, "steps", read[s].recording)
                                          ELSE UNCHANGED latest
  /\ changes' = Content

(* The worker's case was agentic when its task began, perhaps not any more.*)
RecordCommit(s) ==
  /\ End(s, "record") /\ on[s] \in rows
  /\ Save(s, [read[s] EXCEPT !.recording = Content])
  /\ Wrote(s, "recording", Content) /\ changes' = Content

DeleteCommit(s) ==
  /\ End(s, "delete") /\ on[s] \in rows
  /\ rows' = rows \ {on[s]} /\ gone' = gone \cup {on[s]}
  /\ UNCHANGED <<number, indexed, startVars, columns, historyVars>>

(* The row has gone in the meantime: nothing is written.                   *)
Stale(s) ==
  /\ job[s] # "create" /\ on[s] \notin rows
  /\ End(s, job[s]) /\ on[s] # NoCase
  /\ UNCHANGED <<rows, gone, number, indexed, startVars, columns, historyVars>>

BookNext ==
  \/ \E c \in Case : CreateAncient(c)
  \/ \E n \in Node : SelectMissing(n) \/ SelectHighest(n) \/ NumberFound(n) \/ StartFails(n)
  \/ \E s \in Session :
       \/ \E c \in Case : \/ CreateRead(s, c)
                          \/ \E what \in {"edit", "cure", "record", "delete"} : Read(s, what, c)
       \/ CreateCommit(s) \/ Refused(s)
       \/ \E m \in Mode : EditCommit(s, m)
       \/ CureCommit(s) \/ RecordCommit(s) \/ DeleteCommit(s) \/ Stale(s)

BookSpec == BookInit /\ [][BookNext]_bookVars

-----------------------------------------------------------------------------
BookTypeOK ==
  /\ rows \subseteq Case /\ gone \subseteq Case /\ number \in [Case -> Nat] /\ indexed \in BOOLEAN
  /\ boot \in [Node -> {"off", "selected", "counted"}]
  /\ found \in [Node -> SUBSET Case] /\ highest \in [Node -> Nat] /\ quiet \in [Node -> BOOLEAN]
  /\ steps \in [Case -> Nat] /\ recording \in [Case -> Nat]
  /\ mode \in [Case -> Mode]
  /\ job \in [Session -> {"none", "create", "edit", "cure", "record", "delete"}]
  /\ on \in [Session -> Case \cup {NoCase}]
  /\ changes \in Nat

(* A process that starts while no case is added and no other start ends    *)
(* leaves no row without a number, unless two rows shared a number already *)
(* (then it fails): the numbers it gives collide with none, whatever is    *)
(* edited or deleted meanwhile and whatever starts there were before.      *)
UndisturbedStart ==
  [][\A n \in Node : boot[n] = "counted" /\ quiet[n] /\ boot'[n] = "off"
                       => Missing' = {} \/ ~Distinct(number)]_bookVars

(* Sessions that overlap do not undo one another: the user's last edit     *)
(* (or cure) and the last recording are both in the row.                   *)
ChangesKept ==
  \A c \in rows : steps[c] = latest[c].steps /\ recording[c] = latest[c].recording
=============================================================================
