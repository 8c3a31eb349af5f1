---------------------------- MODULE TargetStore ----------------------------
(***************************************************************************)
(* The session's target store: one selection, written only through a queue *)
(* of operations that commit one at a time in the order they were called,  *)
(* and read at once by bind(). A caller awaits its own operation; others   *)
(* may run between the call and the commit.                                *)
(***************************************************************************)
EXTENDS TargetRules, Sequences, Naturals

CONSTANT Callers

VARIABLES
    selection,   \* TargetStore.selection
    queue        \* operations called and not yet committed, oldest first

storeVars == <<selection, queue>>

OpKinds == {"select", "selectIfNone", "clear"}

StoreOps == [kind : OpKinds, target : Selections, by : Callers]

StoreTypeOK == selection \in Selections /\ queue \in Seq(StoreOps)

StoreInit == selection = NoSelection /\ queue = <<>>

\* What committing an operation makes of the selection it finds.
Apply(o, sel) ==
    CASE o.kind = "clear" -> NoSelection
      [] o.kind = "selectIfNone" /\ sel.status # "none" -> sel
      [] OTHER -> o.target

Enqueue(kind, target, by) ==
    queue' = Append(queue, [kind |-> kind, target |-> target, by |-> by])

Pending(p) == \E i \in DOMAIN queue : queue[i].by = p

\* A chain poisoned by a call that found its target missing.
CommitHeadPoisoned ==
    /\ queue # <<>>
    /\ Head(queue).target.status # "selected-missing"
    /\ selection' = Apply(Head(queue), selection)
    /\ queue' = Tail(queue)

CommitHead ==
    /\ queue # <<>>
    /\ selection' = Apply(Head(queue), selection)
    /\ queue' = Tail(queue)

Called == \E i \in DOMAIN queue' : queue'[i] \in StoreOps /\ queue' = Append(queue, queue'[i])

StoreNext == (Called /\ UNCHANGED selection) \/ CommitHead

\* What TargetStore promises its callers (enqueue, select, selectIfNone, clear):
\* the selection is written only by committing the oldest operation called, and
\* no operation is lost, reordered or committed twice.
StoreSpec == StoreInit /\ [][StoreNext]_storeVars

\* bind() throws unless the selection names exactly one running container.
Bindable(sel) ==
    /\ sel.status = "selected-valid"
    /\ sel.cand # NoContainer
    /\ sel.state = "running"

\* The execution context bind() freezes.
Contexts == [ws : Workspaces \cup {NoWorkspace}, cand : Containers \cup {NoContainer},
             config : Configs \cup {NoConfig}]

ContextOf(sel) == [ws |-> sel.ws, cand |-> sel.cand, config |-> sel.config]

NoContext == ContextOf(NoSelection)

\* A request from outside the target runs only if it is not made from another
\* DevContainer project.
InScope(dir, ctx) == dir \in Under[ctx.ws] \/ dir \notin ConfigWorkspaces

=============================================================================
