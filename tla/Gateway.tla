------------------------------- MODULE Gateway -------------------------------
(***************************************************************************)
(* The agent gateway's configuration: one file, its applied versions in    *)
(* the database and the configuration the process runs with                *)
(* (backend/src/gateway/service.py, apply.py, watcher.py, state.py,        *)
(* edits.py, loader.py, cli.py and api/routes/gateway.py).                 *)
(*                                                                         *)
(* Writers: requests of the API under one lock, the command line in a      *)
(* process of its own, and people with an editor.  The file watcher        *)
(* applies what it did not announce itself; it does not take the lock.     *)
(* A text is the set of changes it holds, or broken.                       *)
(***************************************************************************)
EXTENDS Naturals, FiniteSets, Sequences

CONSTANTS
    ConfigEditor,       \* requests of the API; each asks for a change of its own
    OutsideChange,      \* changes by the command line or by hand
    MaxConfigVersions,  \* rows of agent_config_versions (bound)
    MaxGatewayRestarts  \* restarts (bound)

ASSUME GatewayAssumption == MaxConfigVersions \in Nat \ {0} /\ MaxGatewayRestarts \in Nat

VARIABLES
    config_file,        \* the text on disk
    config_versions,    \* the rows: pending (not committed), active, rejected or lost
    running_config,     \* the number and text the process runs with; number 0: none
    last_content_hash, self_write,  \* the watcher's memory, and the announced text
    file_event,         \* a change the watcher has not read yet
    reload,             \* the watcher's applications under way: row numbers
    edit_req,           \* what each request is doing
    cli_job,            \* the command line's one command
    gateway_restarts

gatewayVars == <<config_file, config_versions, running_config, last_content_hash, self_write,
                 file_event, reload, edit_req, cli_job, gateway_restarts>>

Change == ConfigEditor \cup OutsideChange
Broken_text == [broken |-> TRUE, holds |-> {}]
Text(changes) == [broken |-> FALSE, holds |-> changes]
NoText == [broken |-> TRUE, holds |-> Change]
IdleEdit == [at |-> "idle"]

GatewayInit ==
    /\ config_file = Text({}) /\ config_versions = <<[status |-> "active", text |-> Text({}), base |-> 0]>>
    /\ running_config = [number |-> 1, text |-> Text({})]
    /\ last_content_hash = NoText /\ self_write = NoText /\ file_event = FALSE /\ reload = {}
    /\ edit_req = [e \in ConfigEditor |-> IdleEdit] /\ cli_job = IdleEdit /\ gateway_restarts = 0

\* JSON5, the schema and its cross checks: the fixed roster, agents that cannot be
\* switched off, two different brokers.
validate_config_dict(text) == ~text.broken

Room == Len(config_versions) < MaxConfigVersions
NextNumber == Len(config_versions) + 1

\* The row of a text: an invalid one is stored as rejected and changes nothing else; a
\* valid one is flushed, and commits after the identities, bindings and policy.
Row(text, base) ==
    [status |-> IF validate_config_dict(text) THEN "pending" ELSE "rejected",
     text |-> text, base |-> base]

\* The commit, and the configuration in use right after it.
_record_active(n) ==
    /\ config_versions' = [config_versions EXCEPT ![n].status = "active"]
    /\ running_config' = [number |-> n, text |-> config_versions[n].text]

_atomic_write(text) == config_file' = text /\ file_event' = TRUE
-----------------------------------------------------------------------------
(* The API.  A request names the version it was made from; a rollback names *)
(* none.                                                                    *)

SetEdit(e, job) == edit_req' = [edit_req EXCEPT ![e] = job]

get_gateway_config(e) ==
    /\ edit_req[e].at = "idle" /\ running_config.number # 0
    /\ \E kind \in {"patch", "put", "put_broken"} :
          SetEdit(e, [at |-> "queued", kind |-> kind, expected |-> running_config.number])
    /\ UNCHANGED <<config_file, config_versions, running_config, last_content_hash, self_write,
                   file_event, reload, cli_job, gateway_restarts>>

request_rollback(e, n) ==
    /\ edit_req[e].at = "idle" /\ n \in DOMAIN config_versions
    /\ config_versions[n].status = "active"
    /\ SetEdit(e, [at |-> "queued", kind |-> "rollback", expected |-> n])
    /\ UNCHANGED <<config_file, config_versions, running_config, last_content_hash, self_write,
                   file_event, reload, cli_job, gateway_restarts>>

_config_lock == \A e \in ConfigEditor : edit_req[e].at # "applying"

\* Mutant: the version is not looked at again under the lock.
_check_version_Earlier(job) == TRUE

_check_version(job) == job.kind = "rollback" \/ job.expected = running_config.number

\* A change to the settings is made to the file as it stands; a whole text replaces it.
NewText(e, job) ==
    CASE job.kind = "patch" -> Text(config_file.holds \cup {e})
      [] job.kind = "put" -> Text(config_versions[job.expected].text.holds \cup {e})
      [] job.kind = "put_broken" -> Broken_text
      [] OTHER -> config_versions[job.expected].text

\* A change of settings needs a file that loads, and something to change.
EditRefused(e, job) ==
    job.kind = "patch" /\ (~validate_config_dict(config_file) \/ e \in config_file.holds)

edit_refused(e) ==
    /\ edit_req[e].at = "queued" /\ _config_lock
    /\ ~_check_version(edit_req[e]) \/ EditRefused(e, edit_req[e])
    /\ SetEdit(e, IdleEdit)
    /\ UNCHANGED <<config_file, config_versions, running_config, last_content_hash, self_write,
                   file_event, reload, cli_job, gateway_restarts>>

\* Under the lock: announce, write, insert the row.  Only a valid text is written.
_write_and_apply(e) ==
    LET job == edit_req[e]
        text == NewText(e, job)
    IN  /\ job.at = "queued" /\ _config_lock /\ Room
        /\ _check_version(job) /\ ~EditRefused(e, job)
        /\ config_versions' = Append(config_versions,
                                     Row(text, IF job.kind = "rollback" THEN 0 ELSE job.expected))
        /\ IF validate_config_dict(text)
           THEN /\ self_write' = text /\ _atomic_write(text)
                /\ SetEdit(e, [at |-> "applying", row |-> NextNumber])
           ELSE SetEdit(e, IdleEdit) /\ UNCHANGED <<self_write, config_file, file_event>>
        /\ UNCHANGED <<running_config, last_content_hash, reload, cli_job, gateway_restarts>>

edit_applied(e) ==
    /\ edit_req[e].at = "applying" /\ _record_active(edit_req[e].row) /\ SetEdit(e, IdleEdit)
    /\ UNCHANGED <<config_file, last_content_hash, self_write, file_event, reload, cli_job,
                   gateway_restarts>>
-----------------------------------------------------------------------------
(* The watcher.                                                            *)

consume_self_write(text) == self_write = text

\* Nothing for a text it saw last; nothing for one this process announced.
watcher_apply ==
    /\ file_event /\ file_event' = FALSE
    /\ last_content_hash' = config_file
    /\ IF config_file = last_content_hash
       THEN UNCHANGED <<self_write, config_versions, reload>>
       ELSE /\ self_write' = NoText
            /\ IF consume_self_write(config_file) THEN UNCHANGED <<config_versions, reload>>
               ELSE /\ Room /\ config_versions' = Append(config_versions, Row(config_file, 0))
                    /\ reload' = IF validate_config_dict(config_file)
                                 THEN reload \cup {NextNumber} ELSE reload
    /\ UNCHANGED <<config_file, running_config, edit_req, cli_job, gateway_restarts>>

reload_applied(n) ==
    /\ n \in reload /\ reload' = reload \ {n} /\ _record_active(n)
    /\ UNCHANGED <<config_file, last_content_hash, self_write, file_event, edit_req, cli_job,
                   gateway_restarts>>

\* The announcement is good for thirty seconds.
AnnouncementExpires ==
    /\ self_write # NoText /\ self_write' = NoText
    /\ UNCHANGED <<config_file, config_versions, running_config, last_content_hash, file_event,
                   reload, edit_req, cli_job, gateway_restarts>>
-----------------------------------------------------------------------------
(* Outside the process.                                                    *)

\* A command loads the file and writes it back with its change (doctor --fix: without
\* duplicates); its row is its own, its memory and its lock are another process's.
cli_command(c) ==
    /\ cli_job.at = "idle" /\ validate_config_dict(config_file)
    /\ cli_job' = [at |-> "loaded", text |-> Text(config_file.holds \cup {c})]
    /\ UNCHANGED <<config_file, config_versions, running_config, last_content_hash, self_write,
                   file_event, reload, edit_req, gateway_restarts>>

doctor ==
    /\ cli_job.at = "idle" /\ validate_config_dict(config_file)
    /\ cli_job' = [at |-> "loaded", text |-> config_file]
    /\ UNCHANGED <<config_file, config_versions, running_config, last_content_hash, self_write,
                   file_event, reload, edit_req, gateway_restarts>>

cli_writes ==
    /\ cli_job.at = "loaded" /\ Room /\ cli_job' = IdleEdit /\ _atomic_write(cli_job.text)
    /\ config_versions' = Append(config_versions,
                                 [status |-> "active", text |-> cli_job.text, base |-> 0])
    /\ UNCHANGED <<running_config, last_content_hash, self_write, reload, edit_req,
                   gateway_restarts>>

HandEdit(text) ==
    /\ text # config_file /\ _atomic_write(text)
    /\ UNCHANGED <<config_versions, running_config, last_content_hash, self_write, reload,
                   edit_req, cli_job, gateway_restarts>>

\* The process ends and starts again: what was not committed is gone, the file is applied.
lifespan ==
    /\ gateway_restarts < MaxGatewayRestarts /\ Room /\ gateway_restarts' = gateway_restarts + 1
    /\ config_versions' =
          Append([n \in DOMAIN config_versions |->
                    IF config_versions[n].status = "pending"
                    THEN [config_versions[n] EXCEPT !.status = "lost"] ELSE config_versions[n]],
                 [Row(config_file, 0) EXCEPT !.status = IF @ = "pending" THEN "active" ELSE @])
    /\ running_config' = IF validate_config_dict(config_file)
                         THEN [number |-> NextNumber, text |-> config_file]
                         ELSE [number |-> 0, text |-> NoText]
    /\ last_content_hash' = NoText /\ self_write' = NoText /\ file_event' = FALSE /\ reload' = {}
    /\ edit_req' = [e \in ConfigEditor |-> IdleEdit]
    /\ UNCHANGED <<config_file, cli_job>>

GatewayNext ==
    \/ \E e \in ConfigEditor :
          \/ get_gateway_config(e) \/ \E n \in 1 .. MaxConfigVersions : request_rollback(e, n)
          \/ edit_refused(e) \/ _write_and_apply(e) \/ edit_applied(e)
    \/ watcher_apply \/ (\E n \in 1 .. MaxConfigVersions : reload_applied(n))
    \/ AnnouncementExpires
    \/ (\E c \in OutsideChange : cli_command(c)) \/ doctor \/ cli_writes
    \/ \E text \in {Text(config_file.holds \cup {c}) : c \in OutsideChange} \cup {Broken_text} :
          HandEdit(text)
    \/ lifespan
-----------------------------------------------------------------------------
Texts == {Broken_text} \cup {Text(s) : s \in SUBSET Change}
GatewayTypeOK ==
    /\ config_file \in Texts /\ last_content_hash \in Texts \cup {NoText}
    /\ self_write \in Texts \cup {NoText} /\ file_event \in BOOLEAN
    /\ reload \subseteq DOMAIN config_versions
    /\ \A n \in DOMAIN config_versions :
          config_versions[n].status \in {"pending", "active", "rejected", "lost"}

(* "two requests that both read version N cannot both be applied": no two versions in *)
(* force were edited from the same one, whatever hot reloads, commands, rollbacks and *)
(* restarts come between reading and writing (_config_lock, _check_version).          *)
OneEditPerVersion ==
    \A m, n \in DOMAIN config_versions :
        /\ config_versions[m].status \in {"pending", "active"} /\ config_versions[m].base # 0
        /\ config_versions[n].status \in {"pending", "active"}
        /\ config_versions[n].base = config_versions[m].base
        => m = n

(* A service edit is applied by the process that made it; the watcher's second        *)
(* application of the same write is "a harmless extra version row, not a correctness  *)
(* issue": with nothing under way the process runs with what the file says.           *)
RunsWithTheFile ==
    (/\ ~file_event /\ reload = {} /\ _config_lock /\ validate_config_dict(config_file))
        => running_config.text = config_file
=============================================================================
