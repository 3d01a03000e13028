------------------------------ MODULE EditorSetup ------------------------------
(***************************************************************************)
(* The files of others that mimir writes itself into: the MCP              *)
(* configuration of an editor (WriteToEditor in                            *)
(* internal/setup/mcp_writer.go; `mimir setup` and `mimir analyze`), the   *)
(* repository's .claude/settings.json (InstallClaudeCodeHooks in           *)
(* internal/setup/hooks.go; `mimir analyze`) and its AGENTS.md and         *)
(* CLAUDE.md (GenerateContextFiles in internal/setup/context_files.go;     *)
(* `mimir analyze`).  A command reads one of the first two, adds the       *)
(* entries of mimir and writes it back, while its user, through the        *)
(* editor, keeps entries of their own in it; the others it just writes.    *)
(* A write that fails is reported and the command goes on.                 *)
(***************************************************************************)
EXTENDS Naturals, FiniteSets

CONSTANTS
  Writer,          \* processes of `mimir setup` and `mimir analyze`
  Entry,           \* servers, hooks and settings that are not mimir's
  MaxEdits,        \* bound on the edits of the user
  SetupFaultSets   \* the environments considered: sets of SetupFaultKinds

SetupFaultKinds ==
  { "edits",      \* the user edits a file between two steps of a command
    "overlap",    \* commands run at the same time
    "crash",      \* a command dies between two of its steps
    "fails",      \* a directory, a file or a write of it fails
    "unread",     \* a file is not read, or holds a value that is not of the type
                  \* expected where mimir's entries go
    "comments" }  \* an editor's file has comments, which encoding/json rejects

File == {"config", "hooks", "context"}
Merging == {"config", "hooks"}

ASSUME SetupAssumption ==
  /\ IsFiniteSet(Writer)
  /\ MaxEdits \in Nat
  /\ SetupFaultSets \subseteq SUBSET SetupFaultKinds

\* A file: "absent", "plain", "commented", "empty" (truncated) or "garbled";
\* the entries of others in it, and how many of mimir's.
Forms == {"absent", "plain", "commented", "empty", "garbled"}
Content == [form : Forms, others : SUBSET Entry, mimir : Nat]
Blank(form) == [form |-> form, others |-> {}, mimir |-> 0]

VARIABLES
  setupFaults,  \* what may happen in this behavior; never changes
  file,         \* file[f]: the contents of f
  wanted,       \* wanted[f]: the entries the user has put into f and not removed
  exposed,      \* exposed[f]: those of them put into f while a command held it,
                \* or that were in it when a write of it stopped halfway
  edits,        \* the number of edits so far
  reported,     \* the files whose last write was reported as done
  task,         \* task[c]: "none", "setup" or "analyze"
  stage,        \* stage[c]: where command c is
  at,           \* at[c]: the file it is working on
  held          \* held[c]: what it will write

user == <<wanted, exposed, edits>>
writers == <<task, stage, at, held>>
setupVars == <<setupFaults, file, user, reported, writers>>

SetupInit ==
  /\ setupFaults \in SetupFaultSets
  /\ file = [f \in File |-> Blank("absent")]
  /\ wanted = [f \in File |-> {}]
  /\ exposed = [f \in File |-> {}]
  /\ edits = 0
  /\ reported = {}
  /\ task = [c \in Writer |-> "none"]
  /\ stage = [c \in Writer |-> "idle"]
  /\ at = [c \in Writer |-> "config"]
  /\ held = [c \in Writer |-> Blank("plain")]

Active == { c \in Writer : stage[c] \notin {"idle", "end"} }
\* Commands that have read f, and not written it yet.
Holding(f) == { c \in Active : at[c] = f /\ stage[c] \in {"truncate", "write"} }
\* Commands that have truncated f, and not written it yet.
Writing(f) == { c \in Active : at[c] = f /\ stage[c] = "write" }
-----------------------------------------------------------------------------
(* The user.  A save of the editor is taken as one step, and as falling    *)
(* outside of the short time between a command's truncation and its write. *)

MayEdit(f) ==
  /\ edits < MaxEdits
  /\ "edits" \in setupFaults \/ Active = {}
  /\ Writing(f) = {}

\* What the editor saves: it keeps all it finds.
Saved(f, others) ==
  { [file[f] EXCEPT !.form = form, !.others = others] :
      form \in {"plain"} \cup (IF "comments" \in setupFaults /\ f = "config" THEN {"commented"} ELSE {}) }

Put(f, e) ==
  /\ MayEdit(f)
  /\ e \notin wanted[f]
  /\ file' \in { [file EXCEPT ![f] = s] : s \in Saved(f, file[f].others \cup {e}) }
  /\ wanted' = [wanted EXCEPT ![f] = @ \cup {e}]
  /\ exposed' = [exposed EXCEPT ![f] = IF Holding(f) = {} THEN @ \ {e} ELSE @ \cup {e}]
  /\ edits' = edits + 1
  /\ UNCHANGED <<setupFaults, reported, writers>>

Remove(f, e) ==
  /\ MayEdit(f)
  /\ e \in wanted[f]
  /\ file' \in { [file EXCEPT ![f] = s] : s \in Saved(f, file[f].others \ {e}) }
  /\ wanted' = [wanted EXCEPT ![f] = @ \ {e}]
  /\ edits' = edits + 1
  /\ UNCHANGED <<setupFaults, exposed, reported, writers>>
-----------------------------------------------------------------------------
(* Commands.                                                               *)

Begin(c, k) ==
  /\ "overlap" \in setupFaults \/ Active = {}
  /\ stage[c] = "idle"
  /\ task' = [task EXCEPT ![c] = k]
  /\ stage' = [stage EXCEPT ![c] = "read"]
  /\ at' = [at EXCEPT ![c] = "config"]
  /\ UNCHANGED <<setupFaults, file, user, reported, held>>

\* SetupAll, InstallClaudeCodeHooks, GenerateContextFiles.
After(f) == IF f = "config" THEN "hooks" ELSE "context"

GoOn(c) ==
  IF task[c] = "setup" \/ at[c] = "context"
  THEN stage' = [stage EXCEPT ![c] = "end"] /\ UNCHANGED at
  ELSE stage' = [stage EXCEPT ![c] = "read"] /\ at' = [at EXCEPT ![c] = After(@)]

\* The editor is not installed, or the command has the flag --skip-hooks.
Skip(c) ==
  /\ stage[c] = "read"
  /\ at[c] \in Merging
  /\ GoOn(c)
  /\ UNCHANGED <<setupFaults, file, user, reported, task, held>>

\* json.Unmarshal into an empty map: what cannot be read, and what does not
\* parse, is taken as empty, and a value that is no map (no list) gives way to
\* an empty one.  AGENTS.md and CLAUDE.md are not read.
PartsOf(s) ==
  { [form |-> "plain", others |-> kept, mimir |-> n] : kept \in SUBSET s.others, n \in {0, s.mimir} }

Parsed(f, s) ==
  IF f \notin Merging \/ s.form # "plain" THEN {Blank("plain")}
  ELSE {s} \cup (IF "unread" \in setupFaults THEN PartsOf(s) ELSE {})

\* Mutant: the entry is written to a new map.
OnlyMimir(f, s) == [s EXCEPT !.others = {}, !.mimir = 1]

\* servers["mimir"] = entry; appendMatchers appends whatever is there.
Merged(f, s) == [s EXCEPT !.mimir = IF f = "hooks" THEN @ + 1 ELSE 1]

ReadFile(c) ==
  /\ stage[c] = "read"
  /\ \E s \in Parsed(at[c], file[at[c]]) : held' = [held EXCEPT ![c] = Merged(at[c], s)]
  /\ stage' = [stage EXCEPT ![c] = "truncate"]
  /\ UNCHANGED <<setupFaults, file, user, reported, task, at>>

\* os.WriteFile opens the file with O_TRUNC,
Truncate(c) ==
  /\ stage[c] = "truncate"
  /\ file' = [file EXCEPT ![at[c]] = Blank("empty")]
  /\ reported' = reported \ {at[c]}
  /\ stage' = [stage EXCEPT ![c] = "write"]
  /\ UNCHANGED <<setupFaults, user, task, at, held>>

\* and writes from its start: over the longer text that another command may
\* have written by then, this leaves the end of that text.
Written(c) ==
  {held[c]} \cup (IF file[at[c]].form = "empty" THEN {} ELSE {Blank("garbled")})

Write(c) ==
  /\ stage[c] = "write"
  /\ file' \in { [file EXCEPT ![at[c]] = s] : s \in Written(c) }
  /\ reported' = reported \cup {at[c]}
  /\ GoOn(c)
  /\ UNCHANGED <<setupFaults, user, task, held>>

\* A write that stops halfway leaves what it has written, at most a part of
\* the text, and nothing of what the file held.
Interrupted(c) ==
  IF stage[c] = "write"
  THEN /\ file' \in {file, [file EXCEPT ![at[c]] = Blank("garbled")]}
       /\ exposed' = [exposed EXCEPT ![at[c]] = @ \cup wanted[at[c]]]
  ELSE UNCHANGED <<file, exposed>>

\* Mutant: the error is not looked at.
FailsUnseen(c) ==
  /\ "fails" \in setupFaults
  /\ stage[c] \in {"truncate", "write"}
  /\ Interrupted(c)
  /\ reported' = reported \cup {at[c]}
  /\ GoOn(c)
  /\ UNCHANGED <<setupFaults, wanted, edits, task, held>>

\* os.MkdirAll, the opening of the file or the write fails: SetupAll records
\* the status "error", analyze prints a warning, and both go on.
WriteFails(c) ==
  /\ "fails" \in setupFaults
  /\ stage[c] \in {"truncate", "write"}
  /\ Interrupted(c)
  /\ GoOn(c)
  /\ UNCHANGED <<setupFaults, wanted, edits, reported, task, held>>

CommandDies(c) ==
  /\ "crash" \in setupFaults
  /\ c \in Active
  /\ Interrupted(c)
  /\ stage' = [stage EXCEPT ![c] = "end"]
  /\ UNCHANGED <<setupFaults, wanted, edits, reported, task, at, held>>

SetupNext ==
  \/ \E f \in File, e \in Entry : Put(f, e) \/ Remove(f, e)
  \/ \E c \in Writer, k \in {"setup", "analyze"} : Begin(c, k)
  \/ \E c \in Writer :
       Skip(c) \/ ReadFile(c) \/ Truncate(c) \/ Write(c) \/ WriteFails(c) \/ CommandDies(c)

SetupSpec == SetupInit /\ [][SetupNext]_setupVars
-----------------------------------------------------------------------------
(* Properties.                                                             *)

\* While commands run one at a time, on files they can read and that have no
\* comments, the only entries of others that a file can lose are those put into
\* it between the read and the write of a command, and those it held when a
\* write of it failed or its command died halfway: every other entry survives
\* any sequence of commands, whatever fails and wherever they die, and one
\* entered again after such a loss is safe again (WriteToEditor, mergeSettings).
LossOnlyOfExposed ==
  setupFaults \subseteq {"edits", "crash", "fails"} =>
    \A f \in Merging : Writing(f) = {} => wanted[f] \ exposed[f] \subseteq file[f].others

\* While commands do not overlap, a file whose last write was reported as
\* configured, installed or written lists mimir, a configuration once: whatever
\* the file held before, whatever the user does to their own entries, and
\* whatever becomes of later commands until one of them has truncated the file;
\* a write that fails or stops halfway is never reported (SetupAll, status
\* "configured").
ConfiguredListsMimir ==
  "overlap" \notin setupFaults =>
    \A f \in reported : file[f].mimir > 0 /\ (f = "config" => file[f].mimir = 1)
=============================================================================
