------------------------ MODULE SemaphoreTableProofs ------------------------
(***************************************************************************)
(* Proofs, for any threads, heap blocks and number of semaphores, that an  *)
(* ID names one semaphore, that a pointer which outlives the lock of       *)
(* g_semaphores is never taken for that of another living semaphore, and   *)
(* when the table can hold a freed one.                                    *)
(***************************************************************************)
EXTENDS SemaphoreTable, SequenceTheorems, WellFoundedInduction, TLAPS

\* A set of natural numbers that is not empty has a least element.
LEMMA HasLeast ==
    ASSUME NEW S \in SUBSET Nat, S # {}
    PROVE  \E x \in S : \A y \in S : x <= y
<1> DEFINE R == {ss \in Nat \X Nat : ss[1] < ss[2]}
<1>1. PICK x \in S : \A y \in S : ~(<<y, x>> \in R)
  BY NatLessThanWellFounded, WFMin, Zenon DEF OpToRel
<1>2. \A y \in S : ~(y < x)
  BY <1>1, Zenon
<1> QED
  BY <1>2

\* GetSemaphore finds an entry that has the ID.
LEMMA IndexFacts ==
    ASSUME NEW ID, g_semaphores \in Seq(Addresses), Index(ID) # 0
    PROVE  /\ Index(ID) \in 1..Len(g_semaphores)
           /\ m_id[g_semaphores[Index(ID)]] = ID
<1> DEFINE I == {i \in 1..Len(g_semaphores) : m_id[g_semaphores[i]] = ID}
<1>1. Index(ID) = IF I # {} THEN Min(I) ELSE 0
  BY DEF Index, SelectInSeq
<1>2. I # {} /\ Index(ID) = Min(I)
  BY <1>1
<1>3. I \in SUBSET Nat
  BY LenProperties
<1>4. \E x \in I : \A y \in I : x <= y
  <2> HIDE DEF I
  <2> QED
    BY <1>2, <1>3, HasLeast
<1>5. Min(I) \in I
  BY <1>4 DEF Min
<1> QED
  BY <1>2, <1>5

\* UnregisterSemaphore leaves entries of the table.
LEMMA EntriesFacts ==
    ASSUME NEW ID, g_semaphores \in Seq(Addresses)
    PROVE  EntriesWithout(ID) \in Seq(Addresses)
<1>1. CASE Index(ID) = 0
  BY <1>1 DEF EntriesWithout
<1>2. CASE Index(ID) # 0
  <2> DEFINE i == Index(ID)
  <2>1. i \in 1..Len(g_semaphores) /\ Len(g_semaphores) \in Nat
    BY <1>2, IndexFacts, LenProperties
  <2>2. \A j \in 1..Len(g_semaphores) : g_semaphores[j] \in Addresses
    BY ElementOfSeq
  <2> HIDE DEF i
  <2>3. SubSeq(g_semaphores, 1, i - 1) \in Seq(Addresses)
    BY <2>1, <2>2, SubSeqProperties
  <2>4. SubSeq(g_semaphores, i + 1, Len(g_semaphores)) \in Seq(Addresses)
    BY <2>1, <2>2, SubSeqProperties
  <2>5. RemoveAt(g_semaphores, i) \in Seq(Addresses)
    BY <2>3, <2>4, ConcatProperties DEF RemoveAt
  <2> QED
    BY <1>2, <2>5 DEF EntriesWithout, i
<1> QED
  BY <1>1, <1>2

-----------------------------------------------------------------------------
(***************************************************************************)
(* The inductive invariant.  IDs grow, so a new one is neither in use nor  *)
(* asked for by a call in progress; and a call past GetSemaphore has a     *)
(* pointer that is the only one that could lead to the ID it asked for.    *)
(***************************************************************************)
Given == 0..(g_NextSemaphoreID - 1)

Tables ==
    /\ g_semaphores \in Seq(Addresses)
    /\ g_NextSemaphoreID \in Nat
    /\ m_id \in [Addresses -> {Unset, Freed} \cup Given]
    /\ known \subseteq Given /\ late \subseteq Given

Calls ==
    /\ pc \in [Threads -> {"user", "insert", "number", "get", "use", "unregister", "delete"}]
    /\ call \in [Threads -> {"none", "create", "acquire", "destroy"}]
    /\ asked \in [Threads -> {Unset} \cup Given]
    /\ semaphore \in [Threads -> Addresses \cup {nullptr}]
    /\ \A t \in Threads :
          /\ pc[t] \in {"insert", "number", "use", "unregister", "delete"} => semaphore[t] \in Addresses
          /\ pc[t] \in {"get", "use", "unregister", "delete"} => asked[t] \in Given

Pointed ==
    \A t \in Threads : pc[t] \in {"use", "unregister", "delete"} =>
        \A a \in Addresses : m_id[a] = asked[t] => a = semaphore[t]

IInv == Tables /\ Calls /\ IDsUnique /\ Pointed /\ StaleOnlyDestroyed

\* Every step keeps the invariant.
LEMMA Step ==
    ASSUME IInv, [Next]_vars
    PROVE  IInv'
<1> USE DEF IInv, Tables, Calls, Given, IDsUnique, Pointed, StaleOnlyDestroyed, Unset, Freed, nullptr,
            Goto, Return, ghosts, tables
<1>1. ASSUME NEW t \in Threads, sys_createSemaphore(t) PROVE IInv'
  BY <1>1 DEF sys_createSemaphore
<1>2. ASSUME NEW t \in Threads, RegisterSemaphore(t) PROVE IInv'
  <2>1. Append(g_semaphores, semaphore[t]) \in Seq(Addresses)
    BY <1>2 DEF RegisterSemaphore
  <2> QED
    BY <1>2, <2>1 DEF RegisterSemaphore
<1>3. ASSUME NEW t \in Threads, SetID(t) PROVE IInv'
  BY <1>3 DEF SetID, NewID
<1>4. ASSUME NEW t \in Threads, NEW what \in {"acquire", "destroy"}, NEW ID, Call(t, what, ID) PROVE IInv'
  BY <1>4 DEF Call
<1>5. ASSUME NEW t \in Threads, GetSemaphore(t) PROVE IInv'
  <2>1. CASE Index(asked[t]) = 0
    <3>1. Return(t) /\ UNCHANGED <<g_semaphores, g_NextSemaphoreID, m_id, known, late>>
      BY <1>5, <2>1 DEF GetSemaphore
    <3> QED
      BY <3>1
  <2>2. CASE Index(asked[t]) # 0
    <3> DEFINE a == g_semaphores[Index(asked[t])]
    <3>1. a \in Addresses /\ m_id[a] = asked[t]
      BY <2>2, IndexFacts, ElementOfSeq
    <3>2. /\ semaphore' = [semaphore EXCEPT ![t] = a]
          /\ pc' = [pc EXCEPT ![t] = IF call[t] = "destroy" THEN "unregister" ELSE "use"]
          /\ pc[t] = "get"
          /\ UNCHANGED <<g_semaphores, g_NextSemaphoreID, m_id, call, asked, known, late>>
      BY <1>5, <2>2 DEF GetSemaphore
    <3> HIDE DEF a
    <3> QED
      BY <3>1, <3>2
  <2> QED
    BY <2>1, <2>2
<1>6. ASSUME NEW t \in Threads, Use(t) PROVE IInv'
  BY <1>6, Zenon DEF Use, Stale
<1>7. ASSUME NEW t \in Threads, UnregisterSemaphore(t) PROVE IInv'
  <2>1. g_semaphores' \in Seq(Addresses)
    BY <1>7, EntriesFacts DEF UnregisterSemaphore
  <2> QED
    BY <1>7, <2>1 DEF UnregisterSemaphore
<1>8. ASSUME NEW t \in Threads, Delete(t) PROVE IInv'
  <2>1. /\ pc[t] = "delete" /\ semaphore[t] \in Addresses /\ asked[t] \in Given
        /\ m_id' = [m_id EXCEPT ![semaphore[t]] = Freed]
        /\ late' = late \cup Stale(t) /\ Stale(t) \subseteq {asked[t]}
        /\ UNCHANGED <<g_semaphores, g_NextSemaphoreID, known>>
    BY <1>8 DEF Delete, Stale
  <2>2. Tables'
    BY <2>1, Zenon
  <2>3. Calls'
    BY <1>8 DEF Delete
  <2>4. IDsUnique'
    BY <2>1
  <2>5. Pointed'
    BY <1>8, <2>1 DEF Delete
  <2>6. StaleOnlyDestroyed'
    <3> SUFFICES ASSUME NEW a \in Addresses PROVE m_id'[a] \notin late'
      OBVIOUS
    <3>1. CASE a = semaphore[t]
      BY <2>1, <3>1
    <3>2. CASE a # semaphore[t]
      BY <2>1, <3>2
    <3> QED
      BY <3>1, <3>2
  <2> QED
    BY <2>2, <2>3, <2>4, <2>5, <2>6, Zenon
<1>9. CASE UNCHANGED vars
  BY <1>9 DEF vars
<1> QED
  BY <1>1, <1>2, <1>3, <1>4, <1>5, <1>6, <1>7, <1>8, <1>9 DEF Next

\* The invariant holds of every behaviour.
LEMMA Invariance == Spec => []IInv
<1>1. Init => IInv
  BY DEF Init, IInv, Tables, Calls, Given, IDsUnique, Pointed, StaleOnlyDestroyed, Unset, Freed, nullptr
<1>2. IInv /\ [Next]_vars => IInv'
  BY Step
<1> QED
  BY <1>1, <1>2, PTL DEF Spec

\* Two semaphores never have one ID, however the calls interleave.
THEOREM IDsStayUnique == Spec => []IDsUnique
  BY Invariance, PTL DEF IInv

\* A call meets something else than the semaphore it asked for only if that
\* semaphore is destroyed.
THEOREM NeverMistaken == Spec => []StaleOnlyDestroyed
  BY Invariance, PTL DEF IInv
-----------------------------------------------------------------------------
(***************************************************************************)
(* The table and the heap.  As long as no two calls of destroy for one ID  *)
(* overlapped, a call that destroys owns its semaphore from GetSemaphore   *)
(* on, as one that creates owns its own until SetID; so what is deleted is *)
(* what was unregistered.                                                  *)
(***************************************************************************)
Listed(a) == \E i \in DOMAIN g_semaphores : g_semaphores[i] = a

\* A semaphore is in the table once.
Once == \A i, j \in DOMAIN g_semaphores : g_semaphores[i] = g_semaphores[j] => i = j

\* A semaphore in the table has not been freed.
Alive == \A a \in Addresses : Listed(a) => m_id[a] # Freed

\* Calls that own a semaphore.
InCreate(t) == pc[t] \in {"insert", "number"}
InDestroy(t) == pc[t] \in {"unregister", "delete"}

\* A call of create has a semaphore of its own that nobody can find.
Creating ==
    \A t \in Threads : InCreate(t) =>
        /\ m_id[semaphore[t]] = Unset
        /\ pc[t] = "insert" => ~Listed(semaphore[t])
        /\ \A u \in Threads : InCreate(u) /\ semaphore[u] = semaphore[t] => u = t

\* A call of destroy has the semaphore that it asked for.
Destroying ==
    \A t \in Threads : InDestroy(t) =>
        /\ call[t] = "destroy" /\ m_id[semaphore[t]] = asked[t]
        /\ pc[t] = "delete" => ~Listed(semaphore[t])
        /\ \A u \in Threads : InDestroy(u) /\ asked[u] = asked[t] => u = t

Lives == Once /\ Alive /\ Creating /\ Destroying

\* A semaphore that is appended becomes listed, and nothing else does.
LEMMA AppendedEntry ==
    ASSUME g_semaphores \in Seq(Addresses), NEW a \in Addresses,
           g_semaphores' = Append(g_semaphores, a)
    PROVE  /\ \A b : Listed(b)' <=> Listed(b) \/ b = a
           /\ Once /\ ~Listed(a) => Once'
<1> DEFINE n == Len(g_semaphores)
<1>1. /\ n \in Nat /\ DOMAIN g_semaphores = 1..n /\ DOMAIN g_semaphores' = 1..(n + 1)
      /\ n + 1 \in 1..(n + 1) /\ g_semaphores'[n + 1] = a
      /\ \A i \in 1..n : i \in 1..(n + 1) /\ g_semaphores'[i] = g_semaphores[i]
      /\ \A i \in 1..(n + 1) : i \in 1..n \/ i = n + 1
  OBVIOUS
<1> HIDE DEF n
<1>2. ASSUME NEW b PROVE Listed(b)' <=> Listed(b) \/ b = a
  <2>1. ASSUME Listed(b) PROVE Listed(b)'
    BY <1>1, <2>1, Zenon DEF Listed
  <2>2. Listed(a)'
    BY <1>1, Zenon DEF Listed
  <2>3. ASSUME Listed(b)', b # a PROVE Listed(b)
    <3>1. PICK i \in 1..(n + 1) : g_semaphores'[i] = b
      BY <1>1, <2>3, Zenon DEF Listed
    <3> QED BY <1>1, <2>3, <3>1, Zenon DEF Listed
  <2> QED BY <2>1, <2>2, <2>3, Zenon
<1>3. ASSUME Once, ~Listed(a) PROVE Once'
  <2>1. \A i \in 1..n : g_semaphores[i] # a
    BY <1>1, <1>3, Zenon DEF Listed
  <2>2. ASSUME NEW i \in 1..(n + 1), NEW j \in 1..(n + 1), g_semaphores'[i] = g_semaphores'[j]
        PROVE  i = j
    <3>1. CASE i \in 1..n /\ j \in 1..n
      BY <1>1, <1>3, <2>2, <3>1, Zenon DEF Once
    <3>2. CASE i = n + 1 /\ j \in 1..n
      BY <1>1, <2>1, <2>2, <3>2, Zenon
    <3>3. CASE i \in 1..n /\ j = n + 1
      BY <1>1, <2>1, <2>2, <3>3, Zenon
    <3> QED BY <1>1, <3>1, <3>2, <3>3, Zenon
  <2> QED BY <1>1, <2>2, Zenon DEF Once
<1> QED BY <1>2, <1>3, Zenon

\* An ID that is not found is that of no entry.
LEMMA NotFound ==
    ASSUME NEW ID, g_semaphores \in Seq(Addresses), Index(ID) = 0
    PROVE  \A a : Listed(a) => m_id[a] # ID
<1> DEFINE I == {i \in 1..Len(g_semaphores) : m_id[g_semaphores[i]] = ID}
<1>1. Index(ID) = IF I # {} THEN Min(I) ELSE 0
  BY DEF Index, SelectInSeq
<1>2. I \in SUBSET Nat /\ \A i \in I : i # 0
  BY LenProperties
<1>3. I = {}
  <2>1. SUFFICES ASSUME I # {} PROVE FALSE
    OBVIOUS
  <2> HIDE DEF I
  <2>2. \E x \in I : \A y \in I : x <= y
    BY <1>2, <2>1, HasLeast
  <2>3. Min(I) \in I
    BY <2>2 DEF Min
  <2> QED BY <1>1, <1>2, <2>1, <2>3
<1>4. DOMAIN g_semaphores = 1..Len(g_semaphores)
  BY LenProperties
<1> QED BY <1>3, <1>4, Zenon DEF Listed

\* What is left of a sequence when one entry is taken out, each at its old place.
LeftOf(s, i, t, at) ==
    /\ at \in [1..(Len(s) - 1) -> 1..Len(s)]
    /\ DOMAIN t = 1..(Len(s) - 1)
    /\ \A j \in 1..(Len(s) - 1) : at[j] # i /\ t[j] = s[at[j]]
    /\ \A j, k \in 1..(Len(s) - 1) : at[j] = at[k] => j = k

\* RemoveAt takes out one entry.
LEMMA RemovedAt ==
    ASSUME NEW S, NEW s \in Seq(S), NEW i \in 1..Len(s)
    PROVE  \E at : LeftOf(s, i, RemoveAt(s, i), at)
<1> DEFINE n == Len(s)
           u == SubSeq(s, 1, i - 1)
           v == SubSeq(s, i + 1, n)
           at == [j \in 1..(n - 1) |-> IF j < i THEN j ELSE j + 1]
<1>1. n \in Nat /\ i \in Nat /\ 1 <= i /\ i <= n
  BY LenProperties
<1>2. /\ u \in Seq(S) /\ Len(u) = i - 1
      /\ \A j \in 1..(i - 1) : u[j] = s[j]
  BY <1>1
<1>3. /\ v \in Seq(S) /\ Len(v) = n - i
      /\ \A j \in 1..(n - i) : v[j] = s[i + j]
  BY <1>1
<1> HIDE DEF u, v
<1>4. /\ DOMAIN (u \o v) = 1..(n - 1)
      /\ \A j \in 1..(n - 1) : (u \o v)[j] = IF j < i THEN s[j] ELSE s[j + 1]
  <2>1. Len(u \o v) = n - 1 /\ DOMAIN (u \o v) = 1..(n - 1)
    <3>1. Len(u \o v) = Len(u) + Len(v) /\ DOMAIN (u \o v) = 1..(Len(u) + Len(v))
      <4>1. u \o v \in Seq(S) /\ Len(u \o v) = Len(u) + Len(v)
        BY <1>2, <1>3, ConcatProperties, Zenon
      <4> QED BY <4>1, LenProperties, Zenon
    <3>2. (i - 1) + (n - i) = n - 1
      BY <1>1
    <3> QED BY <1>2, <1>3, <3>1, <3>2, Zenon
  <2>2. ASSUME NEW j \in 1..(n - 1), j < i PROVE (u \o v)[j] = s[j]
    BY <1>1, <1>2, <1>3, <2>2
  <2>3. ASSUME NEW j \in 1..(n - 1), ~(j < i) PROVE (u \o v)[j] = s[j + 1]
    <3>1. j - (i - 1) \in 1..(n - i) /\ i + (j - (i - 1)) = j + 1
      BY <1>1, <2>3
    <3>2. (u \o v)[j] = v[j - (i - 1)]
      BY <1>1, <1>2, <1>3, <2>3
    <3> QED BY <1>3, <3>1, <3>2
  <2> QED BY <2>1, <2>2, <2>3
<1>5. RemoveAt(s, i) = u \o v
  BY DEF RemoveAt, u, v
<1>6. /\ at \in [1..(n - 1) -> 1..n]
      /\ \A j \in 1..(n - 1) : at[j] # i
      /\ \A j, k \in 1..(n - 1) : at[j] = at[k] => j = k
  BY <1>1
<1>7. \A j \in 1..(n - 1) : at[j] = IF j < i THEN j ELSE j + 1
  OBVIOUS
<1>8. \A j \in 1..(n - 1) : (u \o v)[j] = s[at[j]]
  BY <1>4, <1>7, Zenon
<1> HIDE DEF at
<1>9. LeftOf(s, i, u \o v, at)
  BY <1>4, <1>6, <1>8, Zenon DEF LeftOf
<1> QED BY <1>5, <1>9, Zenon

\* UnregisterSemaphore takes the semaphore with the ID out, and no other.
LEMMA RemovedEntry ==
    ASSUME NEW ID, Tables, IDsUnique, Once, ID \in Given,
           g_semaphores' = EntriesWithout(ID)
    PROVE  /\ Once'
           /\ \A b : Listed(b)' => Listed(b)
           /\ \A b \in Addresses : m_id[b] = ID => ~Listed(b)'
<1>0. g_semaphores \in Seq(Addresses)
  BY Zenon DEF Tables
<1>1. CASE Index(ID) = 0
  <2>1. g_semaphores' = g_semaphores
    BY <1>1, Zenon DEF EntriesWithout
  <2> QED BY <1>0, <1>1, <2>1, NotFound, Zenon DEF Once, Listed
<1>2. CASE Index(ID) # 0
  <2> DEFINE i == Index(ID)
             n == Len(g_semaphores)
  <2>1. /\ i \in 1..n /\ m_id[g_semaphores[i]] = ID /\ g_semaphores[i] \in Addresses
        /\ n \in Nat
    BY <1>0, <1>2, IndexFacts, ElementOfSeq, LenProperties
  <2>2. g_semaphores' = RemoveAt(g_semaphores, i)
    BY <1>2, Zenon DEF EntriesWithout
  <2> HIDE DEF i
  <2>a. PICK at : LeftOf(g_semaphores, i, g_semaphores', at)
    BY <1>0, <2>1, <2>2, RemovedAt, Zenon
  <2>3. /\ at \in [1..(n - 1) -> 1..n]
        /\ DOMAIN g_semaphores' = 1..(n - 1)
        /\ \A j \in 1..(n - 1) : at[j] # i /\ g_semaphores'[j] = g_semaphores[at[j]]
        /\ \A j, k \in 1..(n - 1) : at[j] = at[k] => j = k
    BY <2>a, Zenon DEF LeftOf
  <2>4. DOMAIN g_semaphores = 1..n
    BY <1>0, LenProperties
  <2> HIDE DEF n
  <2>6. Once'
    <3> SUFFICES ASSUME NEW j \in 1..(n - 1), NEW k \in 1..(n - 1),
                        g_semaphores'[j] = g_semaphores'[k]
                 PROVE  j = k
      BY <2>3, Zenon DEF Once
    <3>1. at[j] \in 1..n /\ at[k] \in 1..n /\ g_semaphores[at[j]] = g_semaphores[at[k]]
      BY <2>3, Zenon
    <3>2. at[j] = at[k]
      BY <2>4, <3>1, Zenon DEF Once
    <3> QED BY <2>3, <3>2, Zenon
  <2>7. ASSUME NEW b, Listed(b)' PROVE Listed(b) /\ b # g_semaphores[i]
    <3>1. PICK j \in 1..(n - 1) : g_semaphores'[j] = b
      BY <2>3, <2>7, Zenon DEF Listed
    <3>2. at[j] \in 1..n /\ at[j] # i /\ g_semaphores[at[j]] = b
      BY <2>3, <3>1, Zenon
    <3>3. b # g_semaphores[i]
      BY <2>1, <2>4, <3>2, Zenon DEF Once
    <3> QED BY <2>4, <3>2, <3>3, Zenon DEF Listed
  <2>8. ASSUME NEW b \in Addresses, m_id[b] = ID PROVE b = g_semaphores[i]
    <3>1. ID \notin {Unset, Freed}
      BY DEF Tables, Given, Unset, Freed
    <3> QED BY <2>1, <2>8, <3>1, Zenon DEF IDsUnique
  <2> QED BY <2>6, <2>7, <2>8, Zenon
<1> QED BY <1>1, <1>2, Zenon
\* A table that does not change has the same entries.
LEMMA SameEntries ==
    ASSUME g_semaphores' = g_semaphores
    PROVE  (\A b : Listed(b)' <=> Listed(b)) /\ (Once <=> Once')
BY Zenon DEF Listed, Once

\* A call that returns gives up what it owned.
LEMMA Returned ==
    ASSUME Calls, raced = {} => Lives, raced' = {}, NEW t \in Threads,
           pc' = [pc EXCEPT ![t] = "user"],
           semaphore' = [semaphore EXCEPT ![t] = nullptr],
           call' = [call EXCEPT ![t] = "none"],
           asked' = [asked EXCEPT ![t] = Unset],
           UNCHANGED <<g_semaphores, m_id, raced>>
    PROVE  Lives'
<1>1. Lives /\ Once' /\ \A b : Listed(b)' <=> Listed(b)
  BY SameEntries, Zenon DEF Lives
<1>2. Alive'
  BY <1>1, Zenon DEF Lives, Alive
<1>3. Creating'
  BY <1>1 DEF Lives, Creating, InCreate, Calls
<1>4. Destroying'
  BY <1>1 DEF Lives, Destroying, InDestroy, Calls
<1> QED BY <1>1, <1>2, <1>3, <1>4, Zenon DEF Lives

\* Every step keeps owners and entries apart.
LEMMA LivesStep ==
    ASSUME IInv, raced = {} => Lives, [Next]_vars, raced' = {}
    PROVE  Lives'
<1>0. /\ Tables /\ Calls /\ IDsUnique
      /\ \A t \in Threads : InCreate(t) => semaphore[t] \in Addresses
      /\ \A t \in Threads : InDestroy(t) => semaphore[t] \in Addresses /\ asked[t] \in Given
      /\ \A x \in Given : x # Unset /\ x # Freed
      /\ Unset # Freed
  <2>1. Tables /\ Calls /\ IDsUnique
    BY Zenon DEF IInv
  <2>2. (\A x \in Given : x # Unset /\ x # Freed) /\ Unset # Freed
    BY <2>1 DEF Tables, Given, Unset, Freed
  <2> QED BY <2>1, <2>2, Zenon DEF Calls, InCreate, InDestroy
<1>1. ASSUME NEW t \in Threads, sys_createSemaphore(t) PROVE Lives'
  <2>1. PICK a \in Addresses :
           /\ m_id[a] = Freed /\ m_id' = [m_id EXCEPT ![a] = Unset]
           /\ semaphore' = [semaphore EXCEPT ![t] = a]
    BY <1>1, Zenon DEF sys_createSemaphore
  <2>2. /\ pc[t] = "user" /\ pc' = [pc EXCEPT ![t] = "insert"]
        /\ call' = [call EXCEPT ![t] = "create"]
        /\ UNCHANGED <<g_semaphores, asked, raced>>
    BY <1>1, Zenon DEF sys_createSemaphore, Goto, ghosts
  <2>3. Lives
    BY <2>2, Zenon
  <2>4. (\A b : Listed(b)' <=> Listed(b)) /\ Once'
    BY <2>2, <2>3, SameEntries, Zenon DEF Lives
  <2>5. Alive'
    BY <1>0, <2>1, <2>3, <2>4 DEF Lives, Alive, Tables
  <2>6. Creating'
    BY <1>0, <2>1, <2>2, <2>3, <2>4 DEF Lives, Alive, Creating, InCreate, Tables, Calls
  <2>7. Destroying'
    BY <1>0, <2>1, <2>2, <2>3, <2>4 DEF Lives, Destroying, InDestroy, Tables, Calls
  <2> QED BY <2>4, <2>5, <2>6, <2>7, Zenon DEF Lives
<1>2. ASSUME NEW t \in Threads, RegisterSemaphore(t) PROVE Lives'
  <2>1. /\ pc[t] = "insert" /\ pc' = [pc EXCEPT ![t] = "number"]
        /\ g_semaphores' = Append(g_semaphores, semaphore[t])
        /\ UNCHANGED <<m_id, call, asked, semaphore, raced>>
    BY <1>2, Zenon DEF RegisterSemaphore, Goto, ghosts
  <2>2. Lives /\ InCreate(t)
    BY <2>1, Zenon DEF InCreate
  <2>3. m_id[semaphore[t]] = Unset /\ ~Listed(semaphore[t]) /\ semaphore[t] \in Addresses
    BY <1>0, <2>1, <2>2, Zenon DEF Lives, Creating
  <2>4. (\A b : Listed(b)' <=> Listed(b) \/ b = semaphore[t]) /\ Once'
    <3>1. g_semaphores \in Seq(Addresses) /\ Once
      BY <1>0, <2>2, Zenon DEF Tables, Lives
    <3> QED BY <2>1, <2>3, <3>1, AppendedEntry, Zenon
  <2>5. Alive'
    BY <1>0, <2>1, <2>2, <2>3, <2>4 DEF Lives, Alive
  <2>6. Creating'
    BY <1>0, <2>1, <2>2, <2>3, <2>4 DEF Lives, Creating, InCreate, Calls
  <2>7. Destroying'
    BY <1>0, <2>1, <2>2, <2>3, <2>4 DEF Lives, Destroying, InDestroy, Calls
  <2> QED BY <2>4, <2>5, <2>6, <2>7, Zenon DEF Lives
<1>3. ASSUME NEW t \in Threads, SetID(t) PROVE Lives'
  <2>1. /\ pc[t] = "number" /\ pc' = [pc EXCEPT ![t] = "user"]
        /\ m_id' = [m_id EXCEPT ![semaphore[t]] = g_NextSemaphoreID]
        /\ semaphore' = [semaphore EXCEPT ![t] = nullptr]
        /\ call' = [call EXCEPT ![t] = "none"]
        /\ asked' = [asked EXCEPT ![t] = Unset]
        /\ UNCHANGED <<g_semaphores, raced>>
    BY <1>3, Zenon DEF SetID, Return, Goto, NewID
  <2>2. Lives /\ InCreate(t)
    BY <2>1, Zenon DEF InCreate
  <2>3. m_id[semaphore[t]] = Unset /\ g_NextSemaphoreID # Freed
    BY <1>0, <2>2 DEF Lives, Creating, Tables, Freed
  <2>4. (\A b : Listed(b)' <=> Listed(b)) /\ Once'
    BY <2>1, <2>2, SameEntries, Zenon DEF Lives
  <2>5. Alive'
    BY <1>0, <2>1, <2>2, <2>3, <2>4 DEF Lives, Alive, Tables
  <2>6. Creating'
    BY <1>0, <2>1, <2>2, <2>3, <2>4 DEF Lives, Creating, InCreate, Tables, Calls
  <2>7. Destroying'
    BY <1>0, <2>1, <2>2, <2>3, <2>4 DEF Lives, Destroying, InDestroy, Tables, Calls
  <2> QED BY <2>4, <2>5, <2>6, <2>7, Zenon DEF Lives
<1>4. ASSUME NEW t \in Threads, NEW what, NEW ID, Call(t, what, ID) PROVE Lives'
  <2>1. /\ pc[t] = "user" /\ pc' = [pc EXCEPT ![t] = "get"]
        /\ call' = [call EXCEPT ![t] = what]
        /\ asked' = [asked EXCEPT ![t] = ID]
        /\ UNCHANGED <<g_semaphores, m_id, semaphore, raced>>
    BY <1>4, Zenon DEF Call, Goto, tables, ghosts
  <2>2. Lives
    BY <2>1, Zenon
  <2>4. (\A b : Listed(b)' <=> Listed(b)) /\ Once'
    BY <2>1, <2>2, SameEntries, Zenon DEF Lives
  <2>5. Alive'
    BY <2>1, <2>2, <2>4, Zenon DEF Lives, Alive
  <2>6. Creating'
    BY <1>0, <2>1, <2>2, <2>4 DEF Lives, Creating, InCreate, Calls
  <2>7. Destroying'
    BY <1>0, <2>1, <2>2, <2>4 DEF Lives, Destroying, InDestroy, Calls
  <2> QED BY <2>4, <2>5, <2>6, <2>7, Zenon DEF Lives
<1>5. ASSUME NEW t \in Threads, GetSemaphore(t) PROVE Lives'
  <2>1. CASE Index(asked[t]) = 0
    <3>1. /\ pc' = [pc EXCEPT ![t] = "user"]
          /\ semaphore' = [semaphore EXCEPT ![t] = nullptr]
          /\ call' = [call EXCEPT ![t] = "none"]
          /\ asked' = [asked EXCEPT ![t] = Unset]
          /\ UNCHANGED <<g_semaphores, m_id, raced>>
      BY <1>5, <2>1, Zenon DEF GetSemaphore, Return, Goto, tables
    <3> QED BY <1>0, <3>1, Returned, Zenon
  <2>2. CASE Index(asked[t]) # 0
    <3> DEFINE a == g_semaphores[Index(asked[t])]
               others == {o \in Threads \ {t} :
                             /\ call[o] = "destroy" /\ asked[o] = asked[t]
                             /\ pc[o] \in {"unregister", "delete"}}
    <3>1. a \in Addresses /\ m_id[a] = asked[t]
      <4>1. g_semaphores \in Seq(Addresses)
        BY <1>0, Zenon DEF Tables
      <4> QED BY <2>2, <4>1, IndexFacts, ElementOfSeq
    <3>2. /\ pc[t] = "get" /\ semaphore' = [semaphore EXCEPT ![t] = a]
          /\ pc' = [pc EXCEPT ![t] = IF call[t] = "destroy" THEN "unregister" ELSE "use"]
          /\ UNCHANGED <<g_semaphores, m_id, call, asked>>
          /\ raced' = IF call[t] = "destroy" /\ others # {}
                      THEN raced \cup {asked[t]} ELSE raced
      BY <1>5, <2>2, Zenon DEF GetSemaphore, Goto, tables
    <3>3. raced = {} /\ (call[t] = "destroy" => others = {})
      BY <3>2
    <3> HIDE DEF a
    <3>4. Lives
      BY <3>3, Zenon
    <3>5. (\A b : Listed(b)' <=> Listed(b)) /\ Once'
      BY <3>2, <3>4, SameEntries, Zenon DEF Lives
    <3>6. Alive'
      BY <3>2, <3>4, <3>5, Zenon DEF Lives, Alive
    <3>7. Creating'
      BY <1>0, <3>2, <3>4, <3>5 DEF Lives, Creating, InCreate, Calls
    <3>8. ASSUME NEW u \in Threads, InDestroy(u), asked[u] = asked[t], u # t
          PROVE  call[t] # "destroy"
      <4>1. call[u] = "destroy"
        BY <3>4, <3>8, Zenon DEF Lives, Destroying
      <4> QED BY <3>3, <3>8, <4>1, Zenon DEF InDestroy
    <3> HIDE DEF others
    <3>9. Destroying'
      BY <1>0, <3>1, <3>2, <3>4, <3>5, <3>8 DEF Lives, Destroying, InDestroy, Calls
    <3> QED BY <3>5, <3>6, <3>7, <3>9, Zenon DEF Lives
  <2> QED BY <2>1, <2>2, Zenon
<1>6. ASSUME NEW t \in Threads, Use(t) PROVE Lives'
  <2>1. /\ pc' = [pc EXCEPT ![t] = "user"]
        /\ semaphore' = [semaphore EXCEPT ![t] = nullptr]
        /\ call' = [call EXCEPT ![t] = "none"]
        /\ asked' = [asked EXCEPT ![t] = Unset]
        /\ UNCHANGED <<g_semaphores, m_id, raced>>
    BY <1>6, Zenon DEF Use, Return, Goto, tables
  <2> QED BY <1>0, <2>1, Returned, Zenon
<1>7. ASSUME NEW t \in Threads, UnregisterSemaphore(t) PROVE Lives'
  <2>1. /\ pc[t] = "unregister" /\ pc' = [pc EXCEPT ![t] = "delete"]
        /\ g_semaphores' = EntriesWithout(asked[t])
        /\ UNCHANGED <<m_id, call, asked, semaphore, raced>>
    BY <1>7, Zenon DEF UnregisterSemaphore, Goto, ghosts
  <2>2. Lives /\ InDestroy(t)
    BY <2>1, Zenon DEF InDestroy
  <2>3. m_id[semaphore[t]] = asked[t] /\ semaphore[t] \in Addresses /\ asked[t] \in Given
    BY <1>0, <2>2, Zenon DEF Lives, Destroying
  <2>4. /\ \A b : Listed(b)' => Listed(b)
        /\ ~Listed(semaphore[t])' /\ Once'
    <3>1. Once
      BY <2>2, Zenon DEF Lives
    <3>2. /\ Once' /\ \A b : Listed(b)' => Listed(b)
          /\ \A b \in Addresses : m_id[b] = asked[t] => ~Listed(b)'
      BY <1>0, <2>1, <2>3, <3>1, RemovedEntry, Zenon
    <3>3. semaphore' = semaphore
      BY <2>1, Zenon
    <3> QED BY <2>3, <3>2, <3>3, Zenon DEF Listed
  <2>5. Alive'
    BY <2>1, <2>2, <2>4, Zenon DEF Lives, Alive
  <2>6. Creating'
    BY <1>0, <2>1, <2>2, <2>4 DEF Lives, Creating, InCreate, Calls
  <2>7. Destroying'
    BY <1>0, <2>1, <2>2, <2>4 DEF Lives, Destroying, InDestroy, Calls
  <2> QED BY <2>4, <2>5, <2>6, <2>7, Zenon DEF Lives
<1>8. ASSUME NEW t \in Threads, Delete(t) PROVE Lives'
  <2>1. /\ pc[t] = "delete" /\ pc' = [pc EXCEPT ![t] = "user"]
        /\ m_id' = [m_id EXCEPT ![semaphore[t]] = Freed]
        /\ semaphore' = [semaphore EXCEPT ![t] = nullptr]
        /\ call' = [call EXCEPT ![t] = "none"]
        /\ asked' = [asked EXCEPT ![t] = Unset]
        /\ UNCHANGED <<g_semaphores, raced>>
    BY <1>8, Zenon DEF Delete, Return, Goto
  <2>2. Lives /\ InDestroy(t)
    BY <2>1, Zenon DEF InDestroy
  <2>3. /\ m_id[semaphore[t]] = asked[t] /\ asked[t] \in Given
        /\ ~Listed(semaphore[t]) /\ semaphore[t] \in Addresses
    BY <1>0, <2>1, <2>2, Zenon DEF Lives, Destroying
  <2>4. (\A b : Listed(b)' <=> Listed(b)) /\ Once'
    BY <2>1, <2>2, SameEntries, Zenon DEF Lives
  <2>5. Alive'
    BY <1>0, <2>1, <2>2, <2>3, <2>4 DEF Lives, Alive, Tables
  <2>6. Creating'
    BY <1>0, <2>1, <2>2, <2>3, <2>4 DEF Lives, Creating, InCreate, Tables, Calls
  <2>7. Destroying'
    BY <1>0, <2>1, <2>2, <2>3, <2>4 DEF Lives, Destroying, InDestroy, Tables, Calls
  <2> QED BY <2>4, <2>5, <2>6, <2>7, Zenon DEF Lives
<1>9. CASE UNCHANGED vars
  <2>1. UNCHANGED <<g_semaphores, m_id, pc, call, asked, semaphore, raced>>
    BY <1>9, Zenon DEF vars
  <2>2. Lives /\ Once' /\ \A b : Listed(b)' <=> Listed(b)
    BY <2>1, SameEntries, Zenon DEF Lives
  <2> QED BY <2>1, <2>2 DEF Lives, Alive, Creating, Destroying, InCreate, InDestroy
<1> QED
  BY <1>1, <1>2, <1>3, <1>4, <1>5, <1>6, <1>7, <1>8, <1>9, Zenon DEF Next

\* GetSemaphore never meets a freed semaphore in the table unless two calls of
\* sys_destroySemaphore for one ID overlapped: memory that is freed has been
\* unregistered, however creating, looking up and destroying interleave.
THEOREM TableHoldsLiving == Spec => []ListedAlive
<1>1. Init => (raced = {} => Lives)
  BY DEF Init, Lives, Once, Alive, Listed, Creating, Destroying, InCreate, InDestroy
<1>2. IInv /\ (raced = {} => Lives) /\ [Next]_vars => (raced = {} => Lives)'
  BY LivesStep, Zenon
<1>3. IInv /\ (raced = {} => Lives) => ListedAlive
  <2>1. ASSUME IInv, Lives, NEW i \in DOMAIN g_semaphores
        PROVE  m_id[g_semaphores[i]] # Freed
    <3>1. g_semaphores \in Seq(Addresses)
      BY <2>1, Zenon DEF IInv, Tables
    <3>2. g_semaphores[i] \in Addresses
      BY <3>1
    <3> QED BY <2>1, <3>2, Zenon DEF Lives, Alive, Listed
  <2> QED BY <2>1, Zenon DEF ListedAlive
<1> QED BY <1>1, <1>2, <1>3, Invariance, PTL DEF Spec
=============================================================================
