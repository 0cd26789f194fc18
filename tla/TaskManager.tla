---------------------------- MODULE TaskManager ----------------------------
(***************************************************************************)
(* The task management system: the commands of command.cpp on the tasks of *)
(* task_manager.cpp, the file that every change rewrites, and processes    *)
(* that end and start again.  A text is its words and whether there are    *)
(* blanks around them; a description has no comma, since the commands      *)
(* split their arguments at commas.                                        *)
(***************************************************************************)
EXTENDS Naturals, SequencesExt

CONSTANTS
    Text,           \* texts, [words, pad]
    Priority,       \* priorities
    MaxId           \* bound on the ids

VARIABLES
    tasks,          \* _tasks: [id, description, priority, ddl]
    next_id,        \* _next_id
    file,           \* the lines of the tasks file
    up,             \* a process runs
    wanted,         \* history: id -> the task as the commands describe it
    fresh,          \* history: the ids given or updated by this process
    damaged         \* history: a save has failed or was cut short

vars == <<tasks, next_id, file, up, wanted, fresh, damaged>>

With(f, k, v) == [x \in DOMAIN f \cup {k} |-> IF x = k THEN v ELSE f[x]]

trim(text) == [text EXCEPT !.pad = FALSE]
FirstWord(text) ==
    [words |-> IF text.words = <<>> THEN <<>> ELSE <<text.words[1]>>, pad |-> FALSE]

Init ==
    /\ tasks = <<>> /\ next_id = 1 /\ file = <<>> /\ up = TRUE
    /\ wanted = [id \in {} |-> 0] /\ fresh = {} /\ damaged = FALSE

\* save() of the new tasks: the file is rewritten, or could not be opened, or
\* the process ends after some of the lines.
save(new) ==
    /\ tasks' = new
    /\ \/ file' = new /\ UNCHANGED <<up, damaged>>
       \/ damaged' = TRUE /\ UNCHANGED <<file, up>>
       \/ /\ new # <<>> /\ damaged' = TRUE /\ up' = FALSE
          /\ \E k \in 0..(Len(new) - 1) : file' = SubSeq(new, 1, k)

\* add_command::exec_impl and task_manager::add.
add(description, priority, ddl) ==
    /\ up /\ next_id <= MaxId
    /\ LET t == [id |-> next_id, description |-> trim(description), priority |-> priority,
                 ddl |-> trim(ddl)]
       IN  /\ save(Append(tasks, t))
           /\ wanted' = With(wanted, next_id, t)
    /\ next_id' = next_id + 1
    /\ fresh' = fresh \cup {next_id}

Has(id) == \E k \in 1..Len(tasks) : tasks[k].id = id

\* del_command::exec_impl and task_manager::remove.
remove(id) ==
    /\ up /\ Has(id)
    /\ LET k == CHOOSE n \in 1..Len(tasks) : tasks[n].id = id
       IN  save(RemoveAt(tasks, k))
    /\ wanted' = Restrict(wanted, DOMAIN wanted \ {id})
    /\ UNCHANGED <<next_id, fresh>>

\* update_command::exec_impl, which does not trim, and task_manager::update.
update(id, description, priority, ddl) ==
    /\ up /\ Has(id)
    /\ LET k == CHOOSE n \in 1..Len(tasks) : tasks[n].id = id
           t == [id |-> id, description |-> description, priority |-> priority, ddl |-> ddl]
       IN  /\ save([tasks EXCEPT ![k] = t])
           /\ wanted' = With(wanted, id, t)
    /\ fresh' = fresh \cup {id}
    /\ UNCHANGED next_id

Exit ==
    /\ up /\ up' = FALSE
    /\ UNCHANGED <<tasks, next_id, file, wanted, fresh, damaged>>

\* A line as load() reads it: the description trimmed, one word of the deadline.
Parse(line) ==
    [line EXCEPT !.description = trim(@), !.ddl = FirstWord(@)]

load_counting ==
    /\ tasks' = [k \in 1..Len(file) |-> Parse(file[k])]
    /\ next_id' = Len(file) + 1

load ==
    /\ tasks' = [k \in 1..Len(file) |-> Parse(file[k])]
    /\ next_id' = Max({0} \cup {file[k].id : k \in 1..Len(file)}) + 1

\* The constructor of the next process.
Start ==
    /\ ~up /\ load
    /\ up' = TRUE /\ fresh' = {}
    /\ UNCHANGED <<file, wanted, damaged>>

Next ==
    \/ \E description, ddl \in Text, priority \in Priority :
         \/ add(description, priority, ddl)
         \/ \E id \in 1..MaxId : update(id, description, priority, ddl)
    \/ \E id \in 1..MaxId : remove(id)
    \/ Exit \/ Start

-----------------------------------------------------------------------------
\* The task as it was last described, to the letter or as a line gives it back.
Described(id) == IF id \in fresh THEN wanted[id] ELSE Parse(wanted[id])

\* Ids are in use once, in ascending order and below _next_id, and one process
\* never gives out an id twice, although the next may.  Unless a save was lost,
\* the tasks are the ones the commands describe, whatever was restarted: those
\* of this process to the letter, older ones with the description trimmed and
\* the deadline cut to its first word, and with their priority.
Correct ==
    /\ \A k \in 1..Len(tasks) : tasks[k].id < next_id
    /\ \A k, l \in 1..Len(tasks) : k < l => tasks[k].id < tasks[l].id
    /\ \A id \in fresh : id < next_id
    /\ \/ damaged
       \/ /\ file = tasks \/ fresh = {}
          /\ {tasks[k].id : k \in 1..Len(tasks)} = DOMAIN wanted
          /\ \A k \in 1..Len(tasks) : tasks[k] = Described(tasks[k].id)
=============================================================================
