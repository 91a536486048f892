------------------------------- MODULE Overlays ------------------------------
(***************************************************************************)
(* DemoParser's entity hooks and the overlay getters (src/DemoParser.ts)   *)
(* over the entity layer.                                                  *)
(*                                                                         *)
(* The decoder calls onCreate, onUpdate and onDelete while it works on an  *)
(* entry; each emits an event, and a listener runs inside emit: it may     *)
(* read any getter there, and it may throw, which ends the message.  The   *)
(* getters memoize what they find in the entity list, and the hooks drop   *)
(* the memoized arrays.                                                    *)
(*                                                                         *)
(* An action is one entry of the Entities module with its callbacks, in    *)
(* the order the code makes them.  An overlay is named by the reference of *)
(* the Entity it wraps.                                                    *)
(***************************************************************************)
EXTENDS Entities

CONSTANTS
    PlayerClass, TeamClass,         \* "CCSPlayer" and "CCSTeam"
    RulesClass, ResourceClass,      \* "CCSGameRulesProxy" and "CCSPlayerResource"
    Clip1Classes,                   \* those with a prop named m_iClip1: weapons
    NotBuilt,                       \* a cache that is null
    Reads,                          \* sets of getters a listener or a consumer reads
    DeleteReads                     \* those it reads inside entityDeleted

Getters == {"players", "weapons", "teams", "gameRules", "playerResource"}

ASSUME OverlaysAssumption ==
    /\ Reads \subseteq SUBSET Getters
    /\ DeleteReads \subseteq SUBSET Getters
    /\ Clip1Classes \cap {PlayerClass, TeamClass, RulesClass, ResourceClass} = {}

VARIABLES
    caches,       \* per getter: the references memoized, or NotBuilt
    created,      \* the objects entityCreated was emitted for
    deleted       \* the objects entityDeleted was emitted for

hooks == <<caches, created, deleted>>
allVars == <<vars, hooks>>

-----------------------------------------------------------------------------
(* The getters *)

Arrays == {"players", "weapons", "teams"}

\* The classes whose entities a getter collects.
Members(g) ==
    CASE g = "players" -> {PlayerClass}
      [] g = "weapons" -> Clip1Classes
      [] g = "teams" -> {TeamClass}
      [] g = "gameRules" -> {RulesClass}
      [] g = "playerResource" -> {ResourceClass}

\* The ids at which list l shows an entity for g.
Found(g, l, h) == {id \in EntityIds : l[id] # NoEntity /\ h[l[id]].class \in Members(g)}

\* One scan of the list.  The two singletons take the first entity and, finding none,
\* leave the cache unbuilt so that the next access retries.
Build(g, l, h) ==
    LET ids == Found(g, l, h)
    IN  IF g \in Arrays THEN {l[id] : id \in ids}
        ELSE IF ids = {} THEN NotBuilt
        ELSE {l[CHOOSE id \in ids : \A j \in ids : id <= j]}

\* The caches after the getters in R were read.
AfterReads(cs, R, l, h) ==
    [g \in Getters |-> IF g \in R /\ cs[g] = NotBuilt THEN Build(g, l, h) ELSE cs[g]]

\* invalidateOverlayCache: what an entity of class c drops.
DropsNoPlayers(c) ==            \* variant: a player drops the teams only
    IF c \in {PlayerClass, TeamClass} THEN {"teams"}
    ELSE IF c \in Clip1Classes THEN {"weapons"}
    ELSE {}

Drops(c) ==
    IF c = PlayerClass THEN {"players", "teams"}
    ELSE IF c = TeamClass THEN {"teams"}
    ELSE IF c \in Clip1Classes THEN {"weapons"}
    ELSE {}

Dropped(cs, c) == [g \in Getters |-> IF g \in Drops(c) THEN NotBuilt ELSE cs[g]]

-----------------------------------------------------------------------------
(* The hooks *)

\* onDelete for the object v: drop, then emit.  The list still holds v while the
\* listener runs.
OnDelete(v, D) == AfterReads(Dropped(caches, heap[v].class), D, list, heap)

\* onCreate for the last object: drop, then emit.  A listener that does not throw is
\* followed by feedRoundTracker, which reads gameRules for the rules proxy.
Feed(c, throws) == IF c = RulesClass /\ ~ throws THEN {"gameRules"} ELSE {}

OnCreate(cs, c, R, throws) ==
    AfterReads(Dropped(cs, c), R \cup Feed(c, throws), list', heap')

\* An enter-PVS of class c over an entity of another class calls onDelete for it first:
\* the caches and the deletions announced by then.
ClearedCaches(id, c, D) == IF Mismatch(id, c) THEN OnDelete(Get(id), D) ELSE caches

NothingCleared(id, c) == {}     \* variant: no synthetic onDelete

Cleared(id, c) == IF Mismatch(id, c) THEN {Get(id)} ELSE {}

-----------------------------------------------------------------------------
(* Entries with their callbacks *)

\* The server keeps one rules proxy and one player resource at a time.
ServerAllows(id, c) ==
    c \in {RulesClass, ResourceClass} =>
        \A j \in EntityIds \ {id} : list[j] # NoEntity => heap[list[j]].class # c

Delete(id, D) ==
    /\ DeleteEntry(id)
    /\ caches' = OnDelete(Get(id), D)
    /\ deleted' = deleted \cup {Get(id)}
    /\ UNCHANGED created

\* The listener throws out of onDelete, before EntityList.delete runs: the entity stays,
\* and the entity that would have replaced it, if it was a mismatch, is not created.
DeleteListenerThrows(id, D) ==
    /\ Get(id) # NoEntity
    /\ caches' = OnDelete(Get(id), D)
    /\ deleted' = deleted \cup {Get(id)}
    /\ UNCHANGED <<vars, created>>

Leave(id) == LeaveEntry(id) /\ UNCHANGED hooks

Enter(id, c, delta, D, R, throws) ==
    /\ ServerAllows(id, c)
    /\ EnterEntry(id, c, delta)
    /\ caches' = OnCreate(ClearedCaches(id, c, D), c, R, throws)
    /\ deleted' = deleted \cup Cleared(id, c)
    /\ created' = created \cup {Len(heap')}

\* An enter-PVS that throws in the baseline or part way through its props: the entity is
\* in the list, onCreate is never called.
EnterFails(id, c, delta, D) ==
    /\ ServerAllows(id, c)
    /\ EnterEntry(id, c, delta) \/ EnterWithoutBaseline(id, c)
    /\ caches' = ClearedCaches(id, c, D)
    /\ deleted' = deleted \cup Cleared(id, c)
    /\ UNCHANGED created

\* onUpdate drops nothing.
Preserve(id, delta, R, throws) ==
    /\ PreserveEntry(id, delta)
    /\ caches' = AfterReads(caches, R \cup Feed(heap[Get(id)].class, throws), list, heap)
    /\ UNCHANGED <<created, deleted>>

PreserveFails(id, delta) == PreserveEntry(id, delta) /\ UNCHANGED hooks

SetBaseline(c, b) == SetBaselineEntry(c, b) /\ UNCHANGED hooks

\* Getters read between two entries: by a consumer, or by an enricher of a game event.
ReadGetters(R) ==
    /\ caches' = AfterReads(caches, R, list, heap)
    /\ UNCHANGED <<vars, created, deleted>>

InitOverlays ==
    /\ Init
    /\ caches = [g \in Getters |-> NotBuilt]
    /\ created = {}
    /\ deleted = {}

NextOverlays ==
    \/ \E id \in EntityIds :
        \/ \E D \in DeleteReads : Delete(id, D) \/ DeleteListenerThrows(id, D)
        \/ Leave(id)
        \/ \E c \in Classes, delta \in Changes, D \in DeleteReads, R \in Reads,
              throws \in BOOLEAN : Enter(id, c, delta, D, R, throws)
        \/ \E c \in Classes, delta \in Changes, D \in DeleteReads :
              EnterFails(id, c, delta, D)
        \/ \E delta \in Changes, R \in Reads, throws \in BOOLEAN :
              Preserve(id, delta, R, throws)
        \/ \E delta \in Changes : PreserveFails(id, delta)
    \/ \E c \in Classes, b \in Blobs \cup {Absent, Corrupt} : SetBaseline(c, b)
    \/ \E R \in Reads : ReadGetters(R)

SpecOverlays == InitOverlays /\ [][NextOverlays]_allVars

-----------------------------------------------------------------------------
(* Properties *)

\* A memoized array misses no entity that was announced and is still in the list,
\* whenever it was built: the hooks drop it before anything can be missed.
CacheComplete ==
    \A g \in Arrays : caches[g] # NotBuilt =>
        {v \in created : Listed(v) /\ heap[v].class \in Members(g)} \subseteq caches[g]

\* No listener of entityDeleted reads an array: one that does memoizes the dying entity.
QuietDeletes == \A D \in DeleteReads : D \cap Arrays = {}

\* A memoized array shows an entity that is gone only when an entry that failed, and
\* so was never announced, put another entity of the class at its id.
CacheSound ==
    \A g \in Arrays : caches[g] # NotBuilt =>
        \A v \in caches[g] : ~ Listed(v) =>
            LET new == list[heap[v].id]
            IN  /\ new # NoEntity
                /\ heap[new].class = heap[v].class
                /\ new \notin created

\* DemoParser.ts, lines 120-123 and 331-333: the overlay of a singleton is built once and
\* sticks.  Its entity may be deleted or re-created; the overlay then reads the row of
\* the entity that took its place, whatever the entries in between.
SingletonFollows ==
    \A g \in Getters \ Arrays : caches[g] # NotBuilt =>
        \A v \in caches[g], w \in Objects :
            Listed(w) /\ heap[w].class = heap[v].class => heap[w].slot = heap[v].slot

\* An announced entity leaves the list in one of two ways only: entityDeleted was
\* emitted for it, or another entity of its class entered at its id.
DeathIsAnnounced ==
    \A v \in created : ~ Listed(v) =>
        \/ v \in deleted
        \/ \E w \in Objects : w > v /\ heap[w].id = heap[v].id /\ heap[w].class = heap[v].class

-----------------------------------------------------------------------------
(* The inductive invariant behind them *)

\* The hooks were told of objects that exist, and a getter memoizes those of its classes.
HooksKnown ==
    /\ created \subseteq Objects
    /\ deleted \subseteq Objects
    /\ \A g \in Getters : caches[g] # NotBuilt =>
          caches[g] \subseteq {v \in Objects : heap[v].class \in Members(g)}

\* A class of which the server keeps one entity has at most one in the list, and its store
\* has handed out row 0 alone: free() returns it before allocate() looks for the next.
SingleRow ==
    \A c \in Classes \cap {RulesClass, ResourceClass} :
        /\ stores[c].nextSlot <= 1
        /\ \A v, w \in Live(c) : v = w
        /\ \A v \in Objects : heap[v].class = c => heap[v].slot = 0

OverlaysInv == IInv /\ SingleRow /\ HooksKnown /\ CacheComplete /\ DeathIsAnnounced

-----------------------------------------------------------------------------
(* What the comments say *)

\* DemoParser.ts, lines 113-114, and state/Player.ts, lines 10-11: reading a held overlay
\* whose entity was recycled throws StaleEntityError.  The overlays read their store
\* without assertFresh, so this asks that no other player has the row they read.
HeldOverlayIsLoud ==
    \A v \in created : heap[v].class = PlayerClass /\ ~ Fresh(v) =>
        \A w \in Live(PlayerClass) : heap[w].slot # heap[v].slot

=============================================================================
