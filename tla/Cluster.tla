------------------------------- MODULE Cluster -------------------------------
(***************************************************************************)
(* EthClientCluster of pkg/service/ethclientcluster.go: every event gets a *)
(* context with a number of its own, taken from a counter under a mutex,   *)
(* and whatever is asked with that context, or with one derived from it,   *)
(* is asked of the delegate the number stands for.  What is asked with a   *)
(* context that has no number is asked of the first delegate, whoever asks.*)
(*                                                                         *)
(* All the other methods of the cluster are Query.  With one delegate, as  *)
(* the program builds the cluster, contexts are not numbered.              *)
(***************************************************************************)
EXTENDS Naturals, FiniteSets

CONSTANTS
    Users,      \* who asks for a context: the events
    N,          \* number of delegates
    Word,       \* the counter is a word: it goes from Word - 1 to 0
    Earlier,    \* values it may have when the events of the model begin
    NoNumber

ClusterAssumption ==
    /\ N \in Nat \ {0} /\ Word \in Nat \ {0, 1}
    /\ Earlier \subseteq 1 .. Word - 1
    /\ NoNumber \notin Nat

VARIABLES
    count,      \* the counter
    inside,     \* who holds the mutex
    seen,       \* what each user has read of the counter
    number,     \* the value in each context
    served,     \* history: who asked with which context, and which delegate
    wraps       \* history: how often the counter overflowed

vars == <<count, inside, seen, number, served, wraps>>

(* main has asked for the first context, for itself, and others were given *)
(* out since then, if there is a choice of delegates.                      *)
Init ==
    /\ count \in IF N = 1 THEN {0} ELSE Earlier
    /\ inside = {}
    /\ seen = [u \in Users |-> 0]
    /\ number = [u \in Users |-> NoNumber]
    /\ served = {}
    /\ wraps = 0

(* Mutated form of MutexAvailable: the counter without its mutex.          *)
MutexIgnored == TRUE

MutexAvailable == inside = {}

(***************************************************************************)
(* NewLoadBalancedContext, read and write of e.count++ apart.              *)
(***************************************************************************)
Lock(u) ==
    /\ N > 1
    /\ number[u] = NoNumber
    /\ u \notin inside
    /\ MutexAvailable
    /\ inside' = inside \cup {u}
    /\ seen' = [seen EXCEPT ![u] = count]
    /\ UNCHANGED <<count, number, served, wraps>>

(* "overflow handled transparently"                                        *)
Incremented(c) == (c + 1) % Word

Decorate(u) ==
    /\ u \in inside
    /\ count' = Incremented(seen[u])
    /\ number' = [number EXCEPT ![u] = Incremented(seen[u])]
    /\ wraps' = IF Incremented(seen[u]) = 0 THEN wraps + 1 ELSE wraps
    /\ inside' = inside \ {u}
    /\ seen' = [seen EXCEPT ![u] = 0]
    /\ UNCHANGED served

(* A context is only used once NewLoadBalancedContext has returned it.     *)
Ready(u) == N = 1 \/ number[u] # NoNumber

(* A user asks with its own context, or, where the bindings are called     *)
(* without options, with a background context, which has no number.        *)
Contexts == {"own", "background"}

Value(u, ctx) == IF ctx = "own" THEN number[u] ELSE NoNumber

(* "trying to use an eth client without providing a load balanced context" *)
delegateAt(n) == IF N = 1 \/ n = NoNumber THEN 0 ELSE n % N

(* What a user asks at one go, with some contexts.                         *)
Query(u, used) ==
    /\ Ready(u)
    /\ served' = served \cup {<<u, ctx, delegateAt(Value(u, ctx))>> : ctx \in used}
    /\ UNCHANGED <<count, inside, seen, number, wraps>>

-----------------------------------------------------------------------------
(***************************************************************************)
(* Whatever is asked with the context of one event, its retries and its    *)
(* transactions included, is asked of one delegate, however many events    *)
(* come in between ("we would get race condition issues because one node   *)
(* has info that another one hasn't yet").                                 *)
(***************************************************************************)
StickyDelegate == \A x, y \in served :
    x[1] = y[1] /\ x[2] = "own" /\ y[2] = "own" => x[3] = y[3]

(***************************************************************************)
(* The load is balanced: of any two delegates, one gets at most one event  *)
(* more than the other, and one more for each overflow of the counter,     *)
(* whose size need not be a multiple of their number.                      *)
(***************************************************************************)
Load(d) == Cardinality({u \in Users : number[u] # NoNumber /\ number[u] % N = d})

Balanced == \A c, d \in 0 .. N - 1 : N > 1 => Load(c) <= Load(d) + 1 + wraps
=============================================================================
