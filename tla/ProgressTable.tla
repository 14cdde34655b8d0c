---------------------------- MODULE ProgressTable ----------------------------
(***************************************************************************)
(* The live table of `koopmans run` and `koopmans attach`                  *)
(* (koopmans/aiida/progress.py, labels.py). The daemon creates processes   *)
(* and moves them on while watch_process reads the tree node by node,      *)
(* parents before children, and makes rows of what it has read: containers *)
(* that say nothing are passed over, a container of one calculation takes  *)
(* its place, and a process without a row lends its state to the row that  *)
(* stands for it.                                                          *)
(*                                                                         *)
(* A process is numbered by its pk, which is the order of creation. How    *)
(* rows are drawn is left out, and so is a database that fails to read.    *)
(***************************************************************************)
EXTENDS Naturals, Sequences, FiniteSets, SequencesExt, FamilyOrder

CONSTANTS MaxProcesses,   \* bound on the size of the tree
          Labels,         \* labels, [family, index]
          LiveStates,     \* the states before the end that calculations go through
          Ends            \* the states in which processes end

ASSUME TableAssumption ==
    /\ MaxProcesses \in Nat \ {0}
    /\ \A label \in Labels : label.index \in Nat
    /\ LiveStates \subseteq {"created", "waiting", "queued", "running", "paused"}
    /\ Ends \subseteq {"finished", "failed", "excepted", "killed"}

VARIABLES
    process,   \* the process tree: what the nodes are and the state they are in
    pc,        \* what watch_process is doing
    root,      \* the state of the root in the node it has loaded
    seen,      \* what it has read of the tree for the table it is building
    todo,      \* the processes it is still to read, the next one first
    table      \* the table on the screen

watchVars == <<pc, root, seen, todo, table>>
tableVars == <<process, watchVars>>

Root == 1
Terminal == {"finished", "failed", "excepted", "killed"}

\* describe_label: what kind of row a process gets. Only a workflow can be a
\* container; a process function has a row only if its label says something.
Roles == {"plain", "transparent", "numbered", "leaf", "function"}

Process == [parent : 0 .. MaxProcesses, role : Roles, label : Labels,
            state : {"waiting"} \cup LiveStates \cup Terminal]

TableInit ==
    /\ process \in [1 .. 1 -> [parent : {0}, role : {"plain"}, label : Labels,
                               state : {"waiting"}]]
    /\ pc = "load"
    /\ root = process[Root].state
    /\ seen = <<>>
    /\ todo = <<>>
    /\ table = <<>>

------------------------------------------------------------------------------
(* What the reader makes of the processes it has read *)

\* Mutant: a process that is paused has not got far.
RankByProgress(state) == CASE state = "created" -> 0
                           [] state = "waiting" -> 1
                           [] state = "paused" -> 2
                           [] state = "queued" -> 3
                           [] state = "running" -> 4

\* _STATE_RANK, _most_advanced
Rank(state) == CASE state = "created" -> 0
                 [] state = "waiting" -> 1
                 [] state = "queued" -> 2
                 [] state = "running" -> 3
                 [] state = "paused" -> 4

MostAdvanced(states) == CHOOSE s \in states : \A t \in states : Rank(t) =< Rank(s)

\* _promoted_state: an end is not lent.
Promoted(state) == IF state \in Terminal THEN "running" ELSE state

\* Some processes in the order of their creation.
ByCreation(ps) ==
    CHOOSE s \in [1 .. Cardinality(ps) -> ps] : \A i, j \in DOMAIN s : i < j => s[i] < s[j]

\* Mutant: a process has a row once it has started.
StartedChildren(kids) == ByCreation({k \in kids : process[k].state # "paused"})

\* _ordered_children: process functions without a label of their own are left
\* out, the others come in display order.
OrderedChildren(kids) ==
    LET created == ByCreation({k \in kids : process[k].role # "function"})
        order == DisplayOrder([i \in DOMAIN created |-> process[created[i]].label])
    IN [i \in DOMAIN created |-> created[order[i]]]

\* _number_siblings: 1, 2, 3 in the order they ran.
NumberSiblings(rows) ==
    LET Wish(i) == rows[i].depth = 0 /\ rows[i].wish IN
    [i \in DOMAIN rows |->
        IF Wish(i)
        THEN [rows[i] EXCEPT !.number = Cardinality({j \in 1 .. i : Wish(j)}), !.wish = FALSE]
        ELSE rows[i]]

\* Mutant: a container takes the place of whatever single row it holds.
CollapsesAny(p, rows) == p # Root /\ process[p].role # "numbered" /\ Len(rows) = 1

\* A container whose whole content is one leaf row takes its place; the root,
\* a numbered row and a row about to be numbered stay.
Collapses(p, rows) ==
    /\ p # Root /\ process[p].role # "numbered"
    /\ Len(rows) = 1 /\ rows[1].number = 0

\* The row of a process and those beneath it; `borrowed` are the states lent to it.
RowOf(p, state, below, borrowed) ==
    LET collapsed == Collapses(p, below)
        lent == borrowed \cup (IF collapsed THEN {Promoted(below[1].state)} ELSE {})
        row == [pk     |-> p,
                pks    |-> {p} \cup (IF collapsed THEN below[1].pks ELSE {}),
                wish   |-> process[p].role = "numbered",
                number |-> 0,
                state  |-> IF state \in Terminal THEN state
                           ELSE MostAdvanced({state} \cup lent),
                depth  |-> 0]
    IN <<row>> \o IF collapsed THEN <<>>
                  ELSE [i \in DOMAIN below |-> [below[i] EXCEPT !.depth = @ + 1]]

\* _collect_rows and _flatten: the rows of a process and of what is beneath it in
\* a tree as it was read, and the state that it lends if it has no row.
CollectRows(read) ==
    LET collect[p \in DOMAIN read] ==
          LET kids == OrderedChildren(read[p].kids)
              below == FlattenSeq([i \in DOMAIN kids |-> collect[kids[i]].rows])
              borrowed == UNION {collect[kids[i]].lent : i \in DOMAIN kids}
              state == read[p].state
          IN IF process[p].role = "transparent"
             THEN [rows |-> below, lent |-> {MostAdvanced({Promoted(state)} \cup borrowed)}]
             ELSE [rows |-> RowOf(p, state, NumberSiblings(below), borrowed), lent |-> {}]
    IN collect[Root].rows

------------------------------------------------------------------------------
(* watch_process *)

\* The next table is built from the root down; the root is not read again.
StartWalk == seen' = <<>> /\ todo' = <<Root>>

\* load_node at the head of the loop.
Load ==
    /\ pc = "load"
    /\ root' = process[Root].state
    /\ pc' = "walk"
    /\ StartWalk
    /\ UNCHANGED <<process, table>>

Kids(p) == {k \in DOMAIN process : process[k].parent = p}

\* _collect_rows reads the state of a process and then whom it has called.
Visit ==
    /\ pc \in {"walk", "final"} /\ todo # <<>>
    /\ LET p == Head(todo)
           kids == OrderedChildren(Kids(p))
       IN /\ seen' = [q \in DOMAIN seen \cup {p} |->
                        IF q = p THEN [state |-> IF p = Root THEN root ELSE process[p].state,
                                       kids |-> Kids(p) \cap ToSet(kids)]
                        ELSE seen[q]]
          /\ todo' = kids \o Tail(todo)
    /\ UNCHANGED <<process, pc, root, table>>

\* Mutant: no last table is drawn, and the loop looks at the process itself.
UpdateUnfinished ==
    /\ pc = "walk" /\ todo = <<>>
    /\ table' = CollectRows(seen)
    /\ pc' = IF process[Root].state \in Terminal THEN "ended" ELSE "load"
    /\ UNCHANGED <<process, root, seen, todo>>

\* live.update: the loop goes on until the node it has loaded is terminated,
\* and then draws the table once more.
Update ==
    /\ pc = "walk" /\ todo = <<>>
    /\ table' = CollectRows(seen)
    /\ IF root \in Terminal THEN pc' = "final" /\ StartWalk
                            ELSE pc' = "load" /\ UNCHANGED <<seen, todo>>
    /\ UNCHANGED <<process, root>>

LastUpdate ==
    /\ pc = "final" /\ todo = <<>>
    /\ table' = CollectRows(seen)
    /\ pc' = "ended"
    /\ UNCHANGED <<process, root, seen, todo>>

Watch == Load \/ Visit \/ Update \/ LastUpdate

------------------------------------------------------------------------------
(* The daemon *)

\* A workflow that runs calls another process. What a process that calls is, and
\* where numbered steps and functions stand, is up to the workflow. Only
\* calculations are told apart by their labels.
Create ==
    /\ Len(process) < MaxProcesses
    /\ \E p \in DOMAIN process, role \in Roles, label \in Labels :
          /\ process[p].state \notin Terminal
          /\ process[p].role \notin {"leaf", "function"}
          /\ role # "leaf" => label = process[Root].label
          /\ process' = Append(process, [parent |-> p, role |-> role, label |-> label,
                                         state |-> "waiting"])
    /\ UNCHANGED watchVars

\* A calculation is queued, runs, or is paused when its upload keeps failing.
Advance ==
    /\ \E p \in DOMAIN process, state \in LiveStates :
          /\ process[p].role = "leaf"
          /\ process[p].state \notin Terminal \cup {state}
          /\ process' = [process EXCEPT ![p].state = state]
    /\ UNCHANGED watchVars

\* A process ends after those it has called.
Terminate ==
    /\ \E p \in DOMAIN process, state \in Ends :
          /\ process[p].state \notin Terminal
          /\ \A k \in Kids(p) : process[k].state \in Terminal
          /\ process' = [process EXCEPT ![p].state = state]
    /\ UNCHANGED watchVars

TableNext == Watch \/ Create \/ Advance \/ Terminate

TableSpec == TableInit /\ [][TableNext]_tableVars

------------------------------------------------------------------------------
(* Properties *)

Rows(t) == {t[i].pk : i \in DOMAIN t}

\* "No process is hidden conditionally on its state, so a row that has appeared
\* is never withdrawn", however the tree grows between and during the reads.
RowsStay == [][Rows(table) \subseteq Rows(table')]_tableVars

\* The row that stands for a process: its own, the one it was collapsed into, or
\* the nearest above a container that is passed over.
Stands(t) ==
    LET at(p) == {i \in DOMAIN t : p \in t[i].pks}
        stand[p \in DOMAIN process] ==
            IF at(p) # {} THEN CHOOSE i \in at(p) : TRUE ELSE stand[process[p].parent]
    IN stand

\* Whatever was read of a process that is paused, the one state the user must
\* act on, shows on the row that stands for it, unless that row has ended.
PausedShows ==
    pc = "load" /\ table # <<>> =>
       \A p \in DOMAIN seen : seen[p].state = "paused" =>
          table[Stands(table)[p]].state \in Terminal \cup {"paused"}

\* "Only position tells them apart": a numbered process that is on the table has
\* a line of its own with a number, and no two under one row have the same.
NumbersTellApart ==
    \A i, j \in DOMAIN table :
       /\ \A p \in table[i].pks : process[p].role = "numbered" =>
             p = table[i].pk /\ table[i].number > 0
       /\ i < j /\ table[i].number > 0 /\ table[i].depth = table[j].depth
          /\ (\A k \in i .. j : table[k].depth >= table[i].depth)
          => table[i].number # table[j].number

\* A step is read below one that was created after it only if both belong to a
\* fan-out, and then by their numbers: nothing else was called between them.
\* "Pulling the two nspin=2 rows together would put the row that reads the
\* restart files above the one that writes them."
RowsReadAsRun ==
    \A i, j \in DOMAIN table :
       LET p == table[i].pk
           q == table[j].pk
       IN i < j /\ p > q /\ p # Root /\ process[p].parent = process[q].parent =>
             /\ process[p].label.index < process[q].label.index
             /\ \A k \in q .. p : process[k].parent = process[p].parent /\
                                  (\E l \in DOMAIN table : table[l].pk = k) =>
                   process[k].label.family = process[p].label.family

\* "Final update to show completed status": the last table names each
\* process that is to have a line on exactly one, in the state it ended in.
LastTableIsFinal ==
    pc = "ended" =>
       /\ \A i \in DOMAIN table : table[i].state = process[table[i].pk].state
       /\ \A p \in DOMAIN process : process[p].role \in {"plain", "leaf", "numbered"} =>
             Cardinality({i \in DOMAIN table : p \in table[i].pks}) = 1
==============================================================================
