-------------------------------- MODULE Lines --------------------------------
(***************************************************************************)
(* fifo.c and lifo.c: one queue and one stack of nodes.  Nothing in the    *)
(* program but its tests uses them, so their order of calls is free.  link *)
(* is the next of the one and the prev of the other.  A queue keeps its    *)
(* top when it gets empty; wild records that a released node was written.  *)
(***************************************************************************)
EXTENDS Naturals, Sequences, FiniteSets, SequencesExt, Links

CONSTANTS
    Cells,     \* the addresses zalloc may return for a node
    Things,    \* the pointers callers push
    VOID       \* NULL, which callers may push too

ASSUME CellsAssumption == IsFiniteSet(Cells)
ASSUME VoidAssumption  == \* VOID is neither an address, nor a line, nor what is in one
    /\ VOID \notin Cells \cup Things
    /\ VOID \notin [head : Cells \cup {VOID}, top : Cells \cup {VOID}, size : Nat]
    /\ VOID \notin Seq(Things \cup {VOID})

VARIABLES
    line,         \* VOID, or head, top (of the queue) and size of each
    link, thing,  \* the fields of the nodes
    cells,        \* the nodes allocated and not released
    wild,
    line_out      \* the latest call and what it handed out

lineVars == <<line, link, thing, cells, wild, line_out>>

Kinds == {"fifo", "lifo"}

LinesInit ==
    /\ line = [q \in Kinds |-> VOID]
    /\ link = [n \in Cells |-> VOID] /\ thing = [n \in Cells |-> VOID]
    /\ cells = {} /\ wild = FALSE /\ line_out = VOID

CellsOf(q)  == Along(link, line[q].head, VOID)
ThingsOf(q) == [k \in DOMAIN CellsOf(q) |-> thing[CellsOf(q)[k]]]

Drop(S) ==
    /\ cells' = cells \ S
    /\ link' = [n \in Cells |-> IF n \in S THEN VOID ELSE link[n]]
    /\ thing' = [n \in Cells |-> IF n \in S THEN VOID ELSE thing[n]]

-----------------------------------------------------------------------------
\* What fifo_init and lifo_init do.
line_init(q) ==
    /\ line[q] = VOID
    /\ line' = [line EXCEPT ![q] = [head |-> VOID, top |-> VOID, size |-> 0]]
    /\ line_out' = <<"init", q>>
    /\ UNCHANGED <<link, thing, cells, wild>>

\* Mutant of fifo_push: whether the queue is empty is asked of top.
FifoPushAsksTop(d, n) ==
    /\ line["fifo"] # VOID /\ n \notin cells
    /\ IF line["fifo"].top = VOID
       THEN /\ line' = [line EXCEPT !["fifo"] = [head |-> n, top |-> n, size |-> @.size + 1]]
            /\ UNCHANGED <<link, wild>>
       ELSE /\ line' = [line EXCEPT !["fifo"].top = n, !["fifo"].size = @ + 1]
            /\ link' = [link EXCEPT ![line["fifo"].top] = n]
            /\ wild' = (line["fifo"].top \notin cells)
    /\ thing' = [thing EXCEPT ![n] = d]
    /\ cells' = cells \cup {n}
    /\ line_out' = <<"push", "fifo", d>>

\* The new node, zeroed by zalloc, goes behind top.
fifo_push(d, n) ==
    /\ line["fifo"] # VOID /\ n \notin cells
    /\ IF line["fifo"].head = VOID
       THEN /\ line' = [line EXCEPT !["fifo"] = [head |-> n, top |-> n, size |-> @.size + 1]]
            /\ UNCHANGED <<link, wild>>
       ELSE /\ line' = [line EXCEPT !["fifo"].top = n, !["fifo"].size = @ + 1]
            /\ link' = [link EXCEPT ![line["fifo"].top] = n]
            /\ wild' = (line["fifo"].top \notin cells)
    /\ thing' = [thing EXCEPT ![n] = d]
    /\ cells' = cells \cup {n}
    /\ line_out' = <<"push", "fifo", d>>

\* An empty stack differs only in that there is nothing to link to.
lifo_push(d, n) ==
    /\ line["lifo"] # VOID /\ n \notin cells
    /\ line' = [line EXCEPT !["lifo"].head = n, !["lifo"].size = @ + 1]
    /\ link' = [link EXCEPT ![n] = line["lifo"].head]
    /\ thing' = [thing EXCEPT ![n] = d]
    /\ cells' = cells \cup {n}
    /\ line_out' = <<"push", "lifo", d>>
    /\ UNCHANGED wild

\* What fifo_pop and lifo_pop do.
line_pop(q) ==
    /\ line[q] # VOID
    /\ IF line[q].head = VOID
       THEN line_out' = <<"pop", q, VOID>> /\ UNCHANGED <<line, link, thing, cells>>
       ELSE LET tmp == line[q].head
            IN  /\ line' = [line EXCEPT ![q].head = link[tmp], ![q].size = @ - 1]
                /\ line_out' = <<"pop", q, thing[tmp]>>
                /\ Drop({tmp})
    /\ UNCHANGED wild

\* The two release functions pop until they get NULL, which an empty line
\* answers and a NULL that was pushed: what is behind it stays allocated.
line_release(q) ==
    /\ line[q] # VOID
    /\ LET k      == SelectInSeq(ThingsOf(q), LAMBDA d : d = VOID)
           popped == IF k = 0 THEN CellsOf(q) ELSE SubSeq(CellsOf(q), 1, k)
           given  == IF k = 0 THEN ThingsOf(q) ELSE SubSeq(ThingsOf(q), 1, k - 1)
       IN  /\ Drop(ToSet(popped))
           /\ line_out' = <<"release", q, given, Len(CellsOf(q)) - Len(popped)>>
    /\ line' = [line EXCEPT ![q] = VOID]
    /\ UNCHANGED wild

fifo_init == line_init("fifo")
lifo_init == line_init("lifo")
fifo_pop  == line_pop("fifo")
lifo_pop  == line_pop("lifo")
fifo_release == line_release("fifo")
lifo_release == line_release("lifo")

LinesNext ==
    \/ fifo_init \/ fifo_pop \/ fifo_release
    \/ lifo_init \/ lifo_pop \/ lifo_release
    \/ \E d \in Things \cup {VOID}, n \in Cells : fifo_push(d, n) \/ lifo_push(d, n)

LinesSpec == LinesInit /\ [][LinesNext]_lineVars
-----------------------------------------------------------------------------
LinesTypeOK ==
    /\ line \in [Kinds -> {VOID} \cup [head : Cells \cup {VOID}, top : Cells \cup {VOID},
                                       size : Nat]]
    /\ link \in [Cells -> Cells \cup {VOID}]
    /\ thing \in [Cells -> Things \cup {VOID}]
    /\ cells \subseteq Cells /\ ~wild
    /\ \A q \in Kinds : line[q] # VOID => /\ line[q].size = Len(CellsOf(q))
                                          /\ ToSet(CellsOf(q)) \subseteq cells
=============================================================================
