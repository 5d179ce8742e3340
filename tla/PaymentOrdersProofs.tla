------------------------- MODULE PaymentOrdersProofs -------------------------
(***************************************************************************)
(* LockOrder is a mutex per order, for any number of requests, orders and  *)
(* processes, and in one process it makes every payment credited at most   *)
(* once.                                                                   *)
(***************************************************************************)
EXTENDS PaymentOrders, FiniteSetTheorems, TLAPS

\* The requests that hold a pointer to mutex l.
Refs(l) == {h \in Handlers : handler[h].rcm = l}

\* A request that is not idle works on an order in a process, and has a
\* pointer to a mutex exactly where LockOrder gave it one.
HandlerOK(h) ==
    LET k == handler[h] IN
    /\ k.pc = "idle" => k = Idle
    /\ k.pc # "idle" => k.order \in Orders /\ k.at \in Instances
    /\ k.pc = "lock" => k.rcm = None /\ ~Unlocked(k.order, k.event)
    /\ k.pc \in {"wait", "unlock", "release"} => k.rcm # None /\ ~Unlocked(k.order, k.event)
    /\ k.pc \in {"read", "write"} => (k.rcm # None <=> ~Unlocked(k.order, k.event))
    /\ k.pc = "answer" => k.rcm = None
    /\ k.rcm # None => orderLocks[k.at][k.order] = k.rcm

\* Two orders, or one order in two processes, never share a mutex.
Distinct == \A i, j \in Instances, o, p \in Orders :
               orderLocks[i][o] # None /\ orderLocks[i][o] = orderLocks[j][p] => i = j /\ o = p

\* A mutex counts the requests that point to it; one in the map has some.
Counted == /\ \A l \in Locks : lock[l].refCount = Cardinality(Refs(l))
           /\ \A i \in Instances, o \in Orders :
                 orderLocks[i][o] # None => Refs(orderLocks[i][o]) # {}

\* A request between LockOrder and UnlockOrder holds its mutex, and nobody else does.
Held == /\ \A h \in Handlers : InCriticalSection(h) => lock[handler[h].rcm].holder = h
        /\ \A l \in Locks : lock[l].holder # None =>
              handler[lock[l].holder].rcm = l /\ InCriticalSection(lock[l].holder)

\* The inductive invariant of LockOrder.
LockInv ==
    /\ POTypeOK
    /\ \A h \in Handlers : HandlerOK(h)
    /\ Distinct
    /\ Counted
    /\ Held

-----------------------------------------------------------------------------
\* The application is one process.
OneProcess == \A i, j \in Instances : i = j

\* A request works on an order that exists; a notification says what the
\* checkout says, but for the failures of waffo, and the administrator
\* completes top-ups only.
EventOK(h) ==
    LET k == handler[h] IN
    k.pc # "idle" =>
       /\ status[k.order] # "none"
       /\ k.event # "admin" =>
             /\ k.event \in Outcomes(k.order)
             /\ \/ k.event = checkout[k.order]
                \/ Unlocked(k.order, k.event) /\ checkout[k.order] # "none"
       /\ k.event = "admin" => kind[k.order].product = "topup"

\* Before it writes, a request that holds the mutex knows that nothing was credited.
WriteOK(h) ==
    handler[h].pc = "write" /\ ~Unlocked(handler[h].order, handler[h].event) =>
       /\ credited[handler[h].order] = 0
       /\ WrittenUnderLock(handler[h].order) => status[handler[h].order] = "pending"

\* A provider about to be told "success" of a payment is told so of a credited
\* order, or of one that could not be looked up.
ReplyOK(h) ==
    LET k == handler[h] IN
    k.pc # "idle" /\ k.ok /\ k.event = "paid" /\ ~IgnoresErrors(k.order)
      => credited[k.order] = 1 \/ k.order \in unread

OrderOK(o) ==
    /\ credited[o] <= 1
    /\ status[o] \in {"none", "pending"} => credited[o] = 0
    /\ status[o] = "none" => checkout[o] = "none"
    /\ kind[o].provider = "creem" => status[o] \in {"none", "pending", "success"}
    /\ status[o] = "success" => credited[o] = 1
    /\ WrittenUnderLock(o) /\ credited[o] = 1 => status[o] = "success"
    /\ o \in acked => checkout[o] = "paid"
    /\ o \in acked /\ ~IgnoresErrors(o) => credited[o] = 1 \/ o \in unread

\* The inductive invariant of the credits.
CreditInv ==
    /\ LockInv
    /\ \A h \in Handlers : EventOK(h) /\ WriteOK(h) /\ ReplyOK(h)
    /\ \A o \in Orders : OrderOK(o)

-----------------------------------------------------------------------------
(* LockOrder.                                                              *)

Requests == [pc : {"idle", "lock", "wait", "read", "write", "answer", "unlock", "release"},
             order : Orders \cup {None}, event : Events, at : Instances \cup {None},
             rcm : Locks \cup {None}, ok : BOOLEAN]

LEMMA IdleType == Idle \in Requests /\ Idle.pc = "idle" /\ Idle.rcm = None /\ Idle.at = None
BY DEF Idle, Requests, Events

\* A mutex is counted by a finite set of requests.
LEMMA RefsFinite ==
    ASSUME NEW l
    PROVE  IsFiniteSet(Refs(l)) /\ Cardinality(Refs(l)) \in 0 .. Cardinality(Handlers)
<1>1. IsFiniteSet(Handlers) /\ Refs(l) \subseteq Handlers
  BY POConstants DEF Refs
<1> QED BY <1>1, FS_Subset, FS_CardinalityType

\* A step that leaves the mutexes, and who points to which, alone.
LEMMA SameLocks ==
    ASSUME LockInv, POTypeOK', UNCHANGED <<kind, orderLocks, lock>>,
           \A h \in Handlers : /\ handler'[h].rcm = handler[h].rcm
                               /\ InCriticalSection(h)' <=> InCriticalSection(h)
                               /\ HandlerOK(h)'
    PROVE  LockInv'
<1>1. \A l : Refs(l)' = Refs(l)
  BY DEF Refs
<1>2. Distinct'
  BY DEF LockInv, Distinct
<1>3. Counted'
  BY <1>1 DEF LockInv, Counted
<1>4. Held'
  <2>1. \A h \in Handlers : InCriticalSection(h)' => lock'[handler'[h].rcm].holder = h
    BY DEF LockInv, Held
  <2>2. \A l \in Locks : lock'[l].holder # None =>
              handler'[lock'[l].holder].rcm = l /\ InCriticalSection(lock[l].holder)'
    <3> SUFFICES ASSUME NEW l \in Locks, lock[l].holder # None
                 PROVE  handler'[lock[l].holder].rcm = l /\ InCriticalSection(lock[l].holder)'
      OBVIOUS
    <3>1. lock[l].holder \in Handlers
      BY DEF LockInv, POTypeOK
    <3>h. PICK h \in Handlers : h = lock[l].holder /\ h = lock'[l].holder
      BY <3>1
    <3>2. handler[h].rcm = l /\ InCriticalSection(h)
      BY <3>h DEF LockInv, Held
    <3>3. handler'[h].rcm = l /\ InCriticalSection(h)'
      BY <3>2
    <3> QED BY <3>h, <3>3
  <2> QED BY <2>1, <2>2 DEF Held
<1> QED BY <1>2, <1>3, <1>4 DEF LockInv

LEMMA LockInit == Init => LockInv
<1> SUFFICES ASSUME Init PROVE LockInv
  OBVIOUS
<1>1. /\ handler = [h \in Handlers |-> Idle] /\ lock = [l \in Locks |-> FreeLock]
      /\ orderLocks = [i \in Instances |-> [o \in Orders |-> None]]
  BY DEF Init
<1>2. FreeLock.refCount = 0 /\ FreeLock.holder = None
      /\ FreeLock \in [refCount : 0 .. Cardinality(Handlers), holder : Handlers \cup {None}]
  BY FS_CardinalityType, POConstants DEF FreeLock
<1>3. POTypeOK
  BY <1>1, <1>2, IdleType, POConstants DEF Init, POTypeOK, Requests, Statuses, Checkouts
<1>4. \A h \in Handlers : HandlerOK(h) /\ ~InCriticalSection(h)
  BY <1>1, IdleType DEF HandlerOK, InCriticalSection
<1>5. \A l \in Locks : Refs(l) = {}
  BY <1>1, IdleType, POConstants DEF Refs, Locks
<1>6. Distinct /\ Counted
  BY <1>1, <1>2, <1>5, FS_EmptySet DEF Distinct, Counted
<1>7. Held
  BY <1>1, <1>2, <1>4 DEF Held
<1> QED BY <1>3, <1>4, <1>6, <1>7 DEF LockInv

\* The steps of the shop and the provider.
LEMMA OrdersMoveLocks ==
    ASSUME LockInv,
           status' \in [Orders -> Statuses], checkout' \in [Orders -> Checkouts],
           UNCHANGED <<kind, credited, acked, unread, handler, orderLocks, lock, faults>>
    PROVE  LockInv'
<1>1. POTypeOK'
  BY DEF LockInv, POTypeOK
<1>2. \A h \in Handlers : HandlerOK(h)' /\ (InCriticalSection(h)' <=> InCriticalSection(h))
  BY DEF LockInv, HandlerOK, InCriticalSection, Unlocked
<1> QED BY <1>1, <1>2, SameLocks

LEMMA EnvironmentTypes ==
    ASSUME LockInv, NEW o \in Orders,
           RequestPay(o) \/ CheckoutCreated(o) \/ CheckoutRefused(o) \/ CheckoutEnds(o)
    PROVE  /\ status' \in [Orders -> Statuses] /\ checkout' \in [Orders -> Checkouts]
           /\ UNCHANGED <<kind, credited, acked, unread, handler, orderLocks, lock, faults>>
<1> USE DEF LockInv, POTypeOK, locks
<1>1. CASE RequestPay(o)
  BY <1>1 DEF RequestPay, Statuses, Checkouts
<1>2. CASE CheckoutCreated(o)
  BY <1>2 DEF CheckoutCreated, Checkouts
<1>3. CASE CheckoutRefused(o)
  <2>1. StatusAfterRefusal(o) \in Statuses
    BY DEF StatusAfterRefusal, Statuses
  <2> QED BY <1>3, <2>1 DEF CheckoutRefused, Checkouts
<1>4. CASE CheckoutEnds(o)
  <2>1. \A r \in Outcomes(o) : r \in Checkouts
    BY DEF Outcomes, Checkouts
  <2> QED BY <1>4, <2>1 DEF CheckoutEnds
<1> QED BY <1>1, <1>2, <1>3, <1>4

\* One request gets another record that points to the same mutex, or none.
LEMMA OneMovesLocks ==
    ASSUME LockInv, NEW h \in Handlers, NEW k \in Requests,
           handler' = [handler EXCEPT ![h] = k],
           k.rcm = handler[h].rcm,
           HandlerOK(h)', InCriticalSection(h)' <=> InCriticalSection(h),
           status' \in [Orders -> Statuses], credited' \in [Orders -> Nat],
           acked' \subseteq Orders, unread' \subseteq Orders, faults' \in 0 .. MaxFaults,
           UNCHANGED <<kind, checkout, orderLocks, lock>>
    PROVE  LockInv'
<1>1. POTypeOK'
  BY DEF LockInv, POTypeOK, Requests
<1>2. handler'[h] = k /\ \A g \in Handlers : g # h => handler'[g] = handler[g]
  BY DEF LockInv, POTypeOK
<1>3. \A g \in Handlers : /\ handler'[g].rcm = handler[g].rcm
                          /\ InCriticalSection(g)' <=> InCriticalSection(g)
                          /\ HandlerOK(g)'
  <2> SUFFICES ASSUME NEW g \in Handlers, g # h
               PROVE  /\ InCriticalSection(g)' <=> InCriticalSection(g)
                      /\ HandlerOK(g)'
    BY <1>2
  <2> QED BY <1>2 DEF LockInv, HandlerOK, InCriticalSection, Unlocked
<1> QED BY <1>1, <1>3, SameLocks

LEMMA BeginLocks ==
    ASSUME LockInv, NEW h \in Handlers, NEW o \in Orders, NEW i \in Instances,
           NEW event \in Events, Begin(h, o, i, event)
    PROVE  LockInv'
<1>k. PICK k : k = [pc |-> IF Unlocked(o, event) THEN "read" ELSE "lock",
                    order |-> o, event |-> event, at |-> i, rcm |-> None, ok |-> FALSE]
  OBVIOUS
<1>0. /\ handler[h].pc = "idle" /\ handler' = [handler EXCEPT ![h] = k]
      /\ UNCHANGED <<kind, status, credited, checkout, acked, unread, orderLocks, lock, faults>>
  BY <1>k DEF Begin, orders, locks
<1>1. /\ k \in Requests /\ k.rcm = None /\ k.order = o /\ k.event = event /\ k.at = i
      /\ k.pc = IF Unlocked(o, event) THEN "read" ELSE "lock"
  BY <1>k DEF Requests
<1>2. handler[h].rcm = None
  BY <1>0, IdleType DEF LockInv, HandlerOK
<1>3. handler'[h] = k
  BY <1>0 DEF LockInv, POTypeOK
<1>4. HandlerOK(h)' /\ (InCriticalSection(h)' <=> InCriticalSection(h))
  BY <1>0, <1>1, <1>3 DEF HandlerOK, InCriticalSection, Unlocked
<1> QED BY <1>0, <1>1, <1>2, <1>4, OneMovesLocks DEF LockInv, POTypeOK

\* The facts about a request h that is not idle.
LEMMA RequestFacts ==
    ASSUME LockInv, NEW h \in Handlers
    PROVE  handler[h] \in Requests /\ HandlerOK(h)
BY DEF LockInv, POTypeOK, Requests

\* A request takes a pointer to the mutex of its order, an old or a new one.
LEMMA LockOrderLocks ==
    ASSUME LockInv, NEW h \in Handlers, LockOrder(h)
    PROVE  LockInv'
<1>o. PICK o \in Orders, i \in Instances : o = handler[h].order /\ i = handler[h].at
  BY DEF LockOrder, LockInv, HandlerOK
<1>0. PICK l \in Locks :
        /\ handler[h].pc = "lock" /\ MutexOf(i, o, l)
        /\ orderLocks' = [orderLocks EXCEPT ![i][o] = l]
        /\ lock' = [lock EXCEPT ![l].refCount = @ + 1]
        /\ handler' = [handler EXCEPT ![h].pc = "wait", ![h].rcm = l]
        /\ UNCHANGED <<kind, status, credited, checkout, acked, unread, faults>>
  BY <1>o DEF LockOrder, Referenced, orders
<1>1. /\ handler[h] \in Requests /\ handler[h].rcm = None
      /\ ~Unlocked(handler[h].order, handler[h].event)
  BY <1>0, RequestFacts DEF HandlerOK
<1>k. PICK k : k = [handler[h] EXCEPT !.pc = "wait", !.rcm = l]
  OBVIOUS
<1>2. /\ k \in Requests /\ k.pc = "wait" /\ k.rcm = l
      /\ k.order = o /\ k.at = i /\ k.event = handler[h].event
  BY <1>k, <1>o, <1>1 DEF Requests
<1>3. handler' = [handler EXCEPT ![h] = k]
  BY <1>k, <1>0 DEF LockInv, POTypeOK
<1>4. handler'[h] = k /\ \A g \in Handlers : g # h => handler'[g] = handler[g]
  BY <1>3 DEF LockInv, POTypeOK
<1>5. l # None /\ None \notin Handlers
  BY POConstants DEF Locks
<1>6. /\ orderLocks'[i][o] = l
      /\ \A j \in Instances, p \in Orders : j # i \/ p # o => orderLocks'[j][p] = orderLocks[j][p]
      /\ orderLocks' \in [Instances -> [Orders -> Locks \cup {None}]]
  BY <1>0 DEF LockInv, POTypeOK
<1>7. Refs(l)' = Refs(l) \cup {h} /\ h \notin Refs(l)
  BY <1>1, <1>2, <1>4, <1>5 DEF Refs
<1>8. \A m \in Locks : m # l => Refs(m)' = Refs(m)
  BY <1>1, <1>2, <1>4, POConstants DEF Refs, Locks
<1>9. Cardinality(Refs(l)') = Cardinality(Refs(l)) + 1
  BY <1>7, RefsFinite, FS_AddElement
<1>10. lock[l] \in [refCount : 0 .. Cardinality(Handlers), holder : Handlers \cup {None}]
  BY DEF LockInv, POTypeOK
<1>11. /\ lock'[l].refCount = Cardinality(Refs(l)') /\ lock'[l].holder = lock[l].holder
       /\ \A m \in Locks : m # l => lock'[m] = lock[m]
  BY <1>0, <1>9, <1>10 DEF LockInv, POTypeOK, Counted
<1>12. Cardinality(Refs(l)') \in 0 .. Cardinality(Handlers)
  <2>1. IsFiniteSet(Handlers) /\ Refs(l)' \subseteq Handlers
    BY POConstants DEF Refs
  <2> QED BY <2>1, FS_Subset, FS_CardinalityType
<1>13. lock' \in [Locks -> [refCount : 0 .. Cardinality(Handlers), holder : Handlers \cup {None}]]
  BY <1>0, <1>10, <1>11, <1>12 DEF LockInv, POTypeOK
<1>14. POTypeOK'
  <2>1. handler' \in [Handlers -> Requests]
    BY <1>2, <1>3 DEF LockInv, POTypeOK, Requests
  <2>2. UNCHANGED <<kind, status, credited, checkout, acked, unread, faults>>
    BY <1>0
  <2> QED BY <1>6, <1>13, <2>1, <2>2 DEF LockInv, POTypeOK, Requests
<1>15. orderLocks[i][o] # None => orderLocks[i][o] = l
  BY <1>0 DEF MutexOf
<1>16. orderLocks[i][o] = None =>
          /\ \A j \in Instances, p \in Orders : orderLocks[j][p] # l
          /\ Refs(l) = {}
  <2> SUFFICES ASSUME orderLocks[i][o] = None
               PROVE  /\ \A j \in Instances, p \in Orders : orderLocks[j][p] # l
                      /\ Refs(l) = {}
    OBVIOUS
  <2>1. ~InUse(l)
    BY <1>0 DEF MutexOf
  <2>2. ~(lock[l].refCount > 0) /\ \A j \in Instances, p \in Orders : orderLocks[j][p] # l
    BY <2>1 DEF InUse
  <2>3. Cardinality(Refs(l)) = 0
    BY <1>10, <2>2 DEF LockInv, Counted
  <2> QED BY <2>2, <2>3, RefsFinite, FS_EmptySet
<1>17. ASSUME NEW g \in Handlers PROVE HandlerOK(g)'
  <2>1. CASE g = h
    <3>1. kind' = kind /\ ~Unlocked(o, k.event)
      BY <1>0, <1>1, <1>2, <1>o
    <3> QED BY <1>2, <1>4, <1>5, <1>6, <2>1, <3>1 DEF HandlerOK, Unlocked
  <2>2. CASE g # h
    <3>1. handler'[g] = handler[g] /\ HandlerOK(g) /\ handler[g] \in Requests
      BY <1>4, <2>2, RequestFacts
    <3>2. ASSUME handler[g].rcm # None
          PROVE  orderLocks'[handler[g].at][handler[g].order] = handler[g].rcm
      <4>1. /\ handler[g].at \in Instances /\ handler[g].order \in Orders
            /\ orderLocks[handler[g].at][handler[g].order] = handler[g].rcm
        BY <3>1, <3>2, IdleType DEF HandlerOK
      <4> QED BY <1>6, <1>15, <3>2, <4>1
    <3> QED BY <1>0, <3>1, <3>2 DEF HandlerOK, Unlocked
  <2> QED BY <2>1, <2>2
<1>18. Distinct'
  BY <1>6, <1>15, <1>16 DEF LockInv, Distinct
<1>19. Counted'
  <2>1. \A m \in Locks : lock'[m].refCount = Cardinality(Refs(m)')
    BY <1>8, <1>11 DEF LockInv, Counted
  <2>2. ASSUME NEW j \in Instances, NEW p \in Orders, orderLocks'[j][p] # None
        PROVE  Refs(orderLocks[j][p])' # {}
    <3>1. CASE orderLocks'[j][p] = l
      BY <1>7, <3>1
    <3>2. CASE orderLocks'[j][p] # l
      <4>1. orderLocks'[j][p] = orderLocks[j][p] /\ orderLocks[j][p] \in Locks
        BY <1>6, <2>2, <3>2 DEF LockInv, POTypeOK
      <4>m. PICK m \in Locks : m = orderLocks[j][p] /\ m = orderLocks'[j][p]
        BY <4>1
      <4>2. Refs(m) # {} /\ Refs(m)' = Refs(m)
        BY <1>8, <2>2, <3>2, <4>m DEF LockInv, Counted
      <4> QED BY <4>m, <4>2
    <3> QED BY <3>1, <3>2
  <2> QED BY <2>1, <2>2 DEF Counted
<1>20. Held'
  <2>1. ASSUME NEW g \in Handlers
        PROVE  /\ InCriticalSection(g)' <=> InCriticalSection(g)
               /\ InCriticalSection(g) => handler'[g] = handler[g]
    BY <1>0, <1>2, <1>4 DEF InCriticalSection, Unlocked
  <2>2. ASSUME NEW g \in Handlers, InCriticalSection(g)' PROVE lock'[handler'[g].rcm].holder = g
    <3>1. lock[handler[g].rcm].holder = g /\ handler[g].rcm \in Locks
      BY <2>1, <2>2, RequestFacts DEF LockInv, Held, HandlerOK, InCriticalSection, Requests
    <3> QED BY <1>11, <2>1, <2>2, <3>1
  <2>3. ASSUME NEW m \in Locks, lock'[m].holder # None
        PROVE  handler'[lock'[m].holder].rcm = m /\ InCriticalSection(lock[m].holder)'
    <3>1. lock'[m].holder = lock[m].holder /\ lock[m].holder \in Handlers
      BY <1>11, <2>3 DEF LockInv, POTypeOK
    <3>g. PICK g \in Handlers : g = lock[m].holder /\ g = lock'[m].holder
      BY <3>1
    <3>2. handler[g].rcm = m /\ InCriticalSection(g)
      BY <2>3, <3>g DEF LockInv, Held
    <3> QED BY <2>1, <3>g, <3>2
  <2> QED BY <2>2, <2>3 DEF Held
<1> QED BY <1>14, <1>17, <1>18, <1>19, <1>20 DEF LockInv

\* The mutex is free: the request that waits becomes its holder.
LEMMA AcquireLocks ==
    ASSUME LockInv, NEW h \in Handlers, Acquire(h)
    PROVE  LockInv'
<1>1. /\ handler[h] \in Requests /\ HandlerOK(h) /\ handler[h].pc = "wait"
      /\ ~Unlocked(handler[h].order, handler[h].event) /\ handler[h].rcm # None
  BY RequestFacts DEF Acquire, HandlerOK
<1>l. PICK l \in Locks : l = handler[h].rcm
  BY <1>1 DEF Requests
<1>0. /\ lock[l].holder = None
      /\ lock' = [lock EXCEPT ![l].holder = h]
      /\ handler' = [handler EXCEPT ![h].pc = "read"]
      /\ UNCHANGED <<kind, status, credited, checkout, acked, unread, orderLocks, faults>>
  BY <1>l DEF Acquire, orders
<1>k. PICK k : k = [handler[h] EXCEPT !.pc = "read"]
  OBVIOUS
<1>2. /\ k \in Requests /\ k.pc = "read" /\ k.rcm = l /\ k.order = handler[h].order
      /\ k.at = handler[h].at /\ k.event = handler[h].event
  BY <1>k, <1>l, <1>1 DEF Requests
<1>3. handler'[h] = k /\ \A g \in Handlers : g # h => handler'[g] = handler[g]
  BY <1>k, <1>0 DEF LockInv, POTypeOK
<1>4. lock[l] \in [refCount : 0 .. Cardinality(Handlers), holder : Handlers \cup {None}]
  BY DEF LockInv, POTypeOK
<1>5. /\ lock'[l].refCount = lock[l].refCount /\ lock'[l].holder = h
      /\ \A m \in Locks : m # l => lock'[m] = lock[m]
      /\ lock' \in [Locks -> [refCount : 0 .. Cardinality(Handlers), holder : Handlers \cup {None}]]
  BY <1>0, <1>4 DEF LockInv, POTypeOK
<1>6. UNCHANGED <<kind, status, credited, checkout, acked, unread, orderLocks, faults>>
  BY <1>0
<1>7. POTypeOK'
  <2>1. handler' \in [Handlers -> Requests]
    BY <1>k, <1>0, <1>2 DEF LockInv, POTypeOK, Requests
  <2> QED BY <1>5, <1>6, <2>1 DEF LockInv, POTypeOK, Requests
<1>8. \A m : Refs(m)' = Refs(m)
  BY <1>l, <1>2, <1>3 DEF Refs
<1>9. ASSUME NEW g \in Handlers PROVE HandlerOK(g)'
  <2>1. CASE g = h
    BY <1>1, <1>l, <1>2, <1>3, <1>6, <2>1 DEF HandlerOK, Unlocked
  <2>2. CASE g # h
    BY <1>3, <1>6, <2>2 DEF LockInv, HandlerOK, Unlocked
  <2> QED BY <2>1, <2>2
<1>10. Distinct' /\ Counted'
  BY <1>5, <1>6, <1>8 DEF LockInv, Distinct, Counted
<1>11. Held'
  <2>1. ASSUME NEW g \in Handlers, g # h
        PROVE  InCriticalSection(g)' <=> InCriticalSection(g)
    BY <1>3, <1>6, <2>1 DEF InCriticalSection, Unlocked
  <2>2. InCriticalSection(h)'
    BY <1>1, <1>2, <1>3, <1>6 DEF InCriticalSection, Unlocked
  <2>3. ASSUME NEW g \in Handlers, g # h, InCriticalSection(g)
        PROVE  lock[handler[g].rcm].holder = g /\ handler[g].rcm \in Locks /\ handler[g].rcm # l
    <3>1. lock[handler[g].rcm].holder = g /\ handler[g].rcm \in Locks
      BY <2>3, RequestFacts DEF LockInv, Held, HandlerOK, InCriticalSection, Requests
    <3> QED BY <1>0, <3>1, POConstants
  <2>4. ASSUME NEW g \in Handlers, InCriticalSection(g)' PROVE lock'[handler'[g].rcm].holder = g
    BY <1>2, <1>3, <1>5, <2>1, <2>3, <2>4
  <2>5. ASSUME NEW m \in Locks, lock'[m].holder # None
        PROVE  handler'[lock'[m].holder].rcm = m /\ InCriticalSection(lock[m].holder)'
    <3>1. CASE m = l
      BY <1>2, <1>3, <1>5, <2>2, <3>1
    <3>2. CASE m # l
      <4>g. PICK g \in Handlers : g = lock[m].holder /\ g = lock'[m].holder
        BY <1>5, <2>5, <3>2 DEF LockInv, POTypeOK
      <4>1. handler[g].rcm = m /\ InCriticalSection(g)
        BY <1>5, <2>5, <3>2, <4>g DEF LockInv, Held
      <4>2. g # h
        BY <1>1, <4>1 DEF InCriticalSection
      <4> QED BY <1>3, <2>1, <4>g, <4>1, <4>2
    <3> QED BY <3>1, <3>2
  <2> QED BY <2>4, <2>5 DEF Held
<1> QED BY <1>7, <1>9, <1>10, <1>11 DEF LockInv

\* UnlockOrder finds the mutex that LockOrder took, and whoever unlocks it held it.
LEMMA UnlockOrderLocks ==
    ASSUME LockInv, NEW h \in Handlers, UnlockOrder(h)
    PROVE  LockInv'
<1>1. /\ handler[h] \in Requests /\ HandlerOK(h) /\ handler[h].pc = "unlock"
      /\ ~Unlocked(handler[h].order, handler[h].event) /\ handler[h].rcm # None
      /\ orderLocks[handler[h].at][handler[h].order] = handler[h].rcm
  BY RequestFacts DEF UnlockOrder, HandlerOK
<1>l. PICK l \in Locks : l = handler[h].rcm
  BY <1>1 DEF Requests
<1>0. /\ lock' = [lock EXCEPT ![l].holder = None]
      /\ handler' = [handler EXCEPT ![h].pc = "release", ![h].rcm = l]
      /\ UNCHANGED <<kind, status, credited, checkout, acked, unread, orderLocks, faults>>
  BY <1>1, <1>l DEF UnlockOrder, Unheld
<1>k. PICK k : k = [handler[h] EXCEPT !.pc = "release", !.rcm = l]
  OBVIOUS
<1>2. /\ k \in Requests /\ k.pc = "release" /\ k.rcm = l /\ k.order = handler[h].order
      /\ k.at = handler[h].at /\ k.event = handler[h].event
  BY <1>k, <1>1 DEF Requests
<1>3. handler'[h] = k /\ \A g \in Handlers : g # h => handler'[g] = handler[g]
  BY <1>k, <1>0 DEF LockInv, POTypeOK
<1>4. lock[l] \in [refCount : 0 .. Cardinality(Handlers), holder : Handlers \cup {None}]
  BY DEF LockInv, POTypeOK
<1>5. /\ lock'[l].refCount = lock[l].refCount /\ lock'[l].holder = None
      /\ \A m \in Locks : m # l => lock'[m] = lock[m]
      /\ lock' \in [Locks -> [refCount : 0 .. Cardinality(Handlers), holder : Handlers \cup {None}]]
  BY <1>0, <1>4 DEF LockInv, POTypeOK
<1>6. UNCHANGED <<kind, status, credited, checkout, acked, unread, orderLocks, faults>>
  BY <1>0
<1>7. POTypeOK'
  <2>1. handler' \in [Handlers -> Requests]
    BY <1>k, <1>0, <1>2 DEF LockInv, POTypeOK, Requests
  <2> QED BY <1>5, <1>6, <2>1 DEF LockInv, POTypeOK, Requests
<1>8. \A m : Refs(m)' = Refs(m)
  BY <1>l, <1>2, <1>3 DEF Refs
<1>9. ASSUME NEW g \in Handlers PROVE HandlerOK(g)'
  <2>1. CASE g = h
    BY <1>1, <1>l, <1>2, <1>3, <1>6, <2>1 DEF HandlerOK, Unlocked
  <2>2. CASE g # h
    BY <1>3, <1>6, <2>2 DEF LockInv, HandlerOK, Unlocked
  <2> QED BY <2>1, <2>2
<1>10. Distinct' /\ Counted'
  BY <1>5, <1>6, <1>8 DEF LockInv, Distinct, Counted
<1>11. Held'
  <2>1. ASSUME NEW g \in Handlers, g # h
        PROVE  InCriticalSection(g)' <=> InCriticalSection(g)
    BY <1>3, <1>6, <2>1 DEF InCriticalSection, Unlocked
  <2>2. ~InCriticalSection(h)' /\ lock[l].holder = h
    BY <1>1, <1>l, <1>2, <1>3 DEF InCriticalSection, LockInv, Held
  <2>3. ASSUME NEW g \in Handlers, g # h, InCriticalSection(g)
        PROVE  lock[handler[g].rcm].holder = g /\ handler[g].rcm \in Locks /\ handler[g].rcm # l
    <3>1. lock[handler[g].rcm].holder = g /\ handler[g].rcm \in Locks
      BY <2>3, RequestFacts DEF LockInv, Held, HandlerOK, InCriticalSection, Requests
    <3> QED BY <2>2, <2>3, <3>1
  <2>4. ASSUME NEW g \in Handlers, InCriticalSection(g)' PROVE lock'[handler'[g].rcm].holder = g
    BY <1>3, <1>5, <2>1, <2>2, <2>3, <2>4
  <2>5. ASSUME NEW m \in Locks, lock'[m].holder # None
        PROVE  handler'[lock'[m].holder].rcm = m /\ InCriticalSection(lock[m].holder)'
    <3>1. m # l
      BY <1>5, <2>5
    <3>g. PICK g \in Handlers : g = lock[m].holder /\ g = lock'[m].holder
      BY <1>5, <2>5, <3>1 DEF LockInv, POTypeOK
    <3>2. handler[g].rcm = m /\ InCriticalSection(g)
      BY <1>5, <2>5, <3>1, <3>g DEF LockInv, Held
    <3>3. g # h
      BY <1>l, <3>1, <3>2
    <3> QED BY <1>3, <2>1, <3>g, <3>2, <3>3
  <2> QED BY <2>4, <2>5 DEF Held
<1> QED BY <1>7, <1>9, <1>10, <1>11 DEF LockInv

LEMMA AnsweredType ==
    ASSUME LockInv, NEW h \in Handlers, handler[h].pc # "idle", Answered(h)
    PROVE  acked' \subseteq Orders
BY RequestFacts DEF Answered, HandlerOK, LockInv, POTypeOK

\* The pointer is given back; the last one takes the mutex out of the map.
LEMMA ReleaseLocks ==
    ASSUME LockInv, NEW h \in Handlers, Release(h)
    PROVE  LockInv'
<1>1. /\ handler[h] \in Requests /\ HandlerOK(h) /\ handler[h].pc = "release"
      /\ handler[h].rcm # None
      /\ orderLocks[handler[h].at][handler[h].order] = handler[h].rcm
  BY RequestFacts DEF Release, HandlerOK
<1>o. PICK o \in Orders, i \in Instances : o = handler[h].order /\ i = handler[h].at
  BY <1>1 DEF HandlerOK
<1>l. PICK l \in Locks : l = handler[h].rcm
  BY <1>1 DEF Requests
<1>0. /\ lock' = [lock EXCEPT ![l].refCount = @ - 1]
      /\ orderLocks' = IF LastReference(l) THEN [orderLocks EXCEPT ![i][o] = None] ELSE orderLocks
      /\ handler' = [handler EXCEPT ![h] = Idle]
      /\ Answered(h)
      /\ UNCHANGED <<kind, status, credited, checkout, unread, faults>>
  BY <1>l, <1>o DEF Release
<1>2. handler'[h] = Idle /\ \A g \in Handlers : g # h => handler'[g] = handler[g]
  BY <1>0 DEF LockInv, POTypeOK
<1>3. Refs(l)' = Refs(l) \ {h} /\ h \in Refs(l)
  BY <1>1, <1>l, <1>2, IdleType DEF Refs
<1>4. \A m \in Locks : m # l => Refs(m)' = Refs(m)
  BY <1>l, <1>2, IdleType, POConstants DEF Refs, Locks
<1>5. Cardinality(Refs(l)') = Cardinality(Refs(l)) - 1 /\ Cardinality(Refs(l)) \in Nat
  BY <1>3, RefsFinite, FS_RemoveElement, FS_CardinalityType
<1>6. /\ lock[l] \in [refCount : 0 .. Cardinality(Handlers), holder : Handlers \cup {None}]
      /\ lock[l].refCount = Cardinality(Refs(l))
  BY DEF LockInv, POTypeOK, Counted
<1>7. /\ lock'[l].refCount = Cardinality(Refs(l)') /\ lock'[l].holder = lock[l].holder
      /\ \A m \in Locks : m # l => lock'[m] = lock[m]
  BY <1>0, <1>5, <1>6 DEF LockInv, POTypeOK
<1>8. Cardinality(Refs(l)') \in 0 .. Cardinality(Handlers)
  <2>1. IsFiniteSet(Handlers) /\ Refs(l)' \subseteq Handlers
    BY POConstants DEF Refs
  <2> QED BY <2>1, FS_Subset, FS_CardinalityType
<1>9. lock' \in [Locks -> [refCount : 0 .. Cardinality(Handlers), holder : Handlers \cup {None}]]
  BY <1>0, <1>6, <1>7, <1>8 DEF LockInv, POTypeOK
<1>10. /\ orderLocks' \in [Instances -> [Orders -> Locks \cup {None}]]
       /\ \A j \in Instances, p \in Orders : j # i \/ p # o => orderLocks'[j][p] = orderLocks[j][p]
       /\ IF LastReference(l) THEN orderLocks'[i][o] = None ELSE orderLocks'[i][o] = l
       /\ orderLocks[i][o] = l
  BY <1>0, <1>1, <1>l, <1>o DEF LockInv, POTypeOK
<1>11. acked' \subseteq Orders
  BY <1>0, <1>1, AnsweredType
<1>12. POTypeOK'
  <2>1. handler' \in [Handlers -> Requests]
    BY <1>0, IdleType DEF LockInv, POTypeOK, Requests
  <2>2. UNCHANGED <<kind, status, credited, checkout, unread, faults>>
    BY <1>0
  <2> QED BY <1>9, <1>10, <1>11, <2>1, <2>2 DEF LockInv, POTypeOK, Requests
<1>13. LastReference(l) => Refs(l)' = {}
  <2> SUFFICES ASSUME LastReference(l) PROVE Refs(l)' = {}
    OBVIOUS
  <2>1. Cardinality(Refs(l)') = 0
    BY <1>5, <1>6 DEF LastReference
  <2>2. IsFiniteSet(Refs(l)')
    BY <1>3, RefsFinite, FS_Subset
  <2> QED BY <2>1, <2>2, FS_EmptySet
<1>14. ~LastReference(l) => Refs(l)' # {}
  <2> SUFFICES ASSUME Refs(l)' = {} PROVE LastReference(l)
    OBVIOUS
  <2>1. Cardinality(Refs(l)') = 0
    BY FS_EmptySet
  <2> QED BY <1>5, <1>6, <2>1 DEF LastReference
<1>15. ASSUME NEW g \in Handlers PROVE HandlerOK(g)'
  <2>1. CASE g = h
    BY <1>2, <2>1, IdleType DEF HandlerOK
  <2>2. CASE g # h
    <3>1. handler'[g] = handler[g] /\ HandlerOK(g) /\ handler[g] \in Requests
      BY <1>2, <2>2, RequestFacts
    <3>2. ASSUME handler[g].rcm # None
          PROVE  orderLocks'[handler[g].at][handler[g].order] = handler[g].rcm
      <4>1. /\ handler[g].at \in Instances /\ handler[g].order \in Orders
            /\ orderLocks[handler[g].at][handler[g].order] = handler[g].rcm
        BY <3>1, <3>2, IdleType DEF HandlerOK
      <4>2. CASE handler[g].rcm = l
        <5>1. Refs(l)' # {}
          BY <2>2, <3>1, <4>2 DEF Refs
        <5>2. handler[g].at = i /\ handler[g].order = o
          BY <1>10, <3>2, <4>1, <4>2 DEF LockInv, Distinct
        <5> QED BY <1>10, <1>13, <4>2, <5>1, <5>2
      <4>3. CASE handler[g].rcm # l
        BY <1>10, <4>1, <4>3
      <4> QED BY <4>2, <4>3
    <3> QED BY <1>0, <3>1, <3>2 DEF HandlerOK, Unlocked
  <2> QED BY <2>1, <2>2
<1>16. Distinct'
  BY <1>10, <1>l, <1>1 DEF LockInv, Distinct
<1>17. Counted'
  <2>1. \A m \in Locks : lock'[m].refCount = Cardinality(Refs(m)')
    BY <1>4, <1>7 DEF LockInv, Counted
  <2>2. ASSUME NEW j \in Instances, NEW p \in Orders, orderLocks'[j][p] # None
        PROVE  Refs(orderLocks[j][p])' # {}
    <3>1. CASE j = i /\ p = o
      BY <1>10, <1>14, <2>2, <3>1
    <3>2. CASE ~(j = i /\ p = o)
      <4>1. orderLocks'[j][p] = orderLocks[j][p] /\ orderLocks[j][p] \in Locks
        BY <1>10, <2>2, <3>2 DEF LockInv, POTypeOK
      <4>m. PICK m \in Locks : m = orderLocks[j][p] /\ m = orderLocks'[j][p]
        BY <4>1
      <4>2. m # l
        BY <1>1, <1>l, <1>10, <3>2, <4>m DEF LockInv, Distinct
      <4>3. Refs(m) # {} /\ Refs(m)' = Refs(m)
        BY <1>4, <2>2, <4>m, <4>2 DEF LockInv, Counted
      <4> QED BY <4>m, <4>3
    <3> QED BY <3>1, <3>2
  <2> QED BY <2>1, <2>2 DEF Counted
<1>18. Held'
  <2>1. ASSUME NEW g \in Handlers
        PROVE  /\ InCriticalSection(g)' <=> InCriticalSection(g)
               /\ InCriticalSection(g) => handler'[g] = handler[g]
    BY <1>0, <1>1, <1>2, IdleType DEF InCriticalSection, Unlocked
  <2>2. ASSUME NEW g \in Handlers, InCriticalSection(g)' PROVE lock'[handler'[g].rcm].holder = g
    <3>1. lock[handler[g].rcm].holder = g /\ handler[g].rcm \in Locks
      BY <2>1, <2>2, RequestFacts DEF LockInv, Held, HandlerOK, InCriticalSection, Requests
    <3> QED BY <1>7, <2>1, <2>2, <3>1
  <2>3. ASSUME NEW m \in Locks, lock'[m].holder # None
        PROVE  handler'[lock'[m].holder].rcm = m /\ InCriticalSection(lock[m].holder)'
    <3>1. lock'[m].holder = lock[m].holder /\ lock[m].holder \in Handlers
      BY <1>7, <2>3 DEF LockInv, POTypeOK
    <3>g. PICK g \in Handlers : g = lock[m].holder /\ g = lock'[m].holder
      BY <3>1
    <3>2. handler[g].rcm = m /\ InCriticalSection(g)
      BY <2>3, <3>g DEF LockInv, Held
    <3> QED BY <2>1, <3>g, <3>2
  <2> QED BY <2>2, <2>3 DEF Held
<1> QED BY <1>12, <1>15, <1>16, <1>17, <1>18 DEF LockInv

\* Leave: the request keeps its pointer and goes on to UnlockOrder, or answers.
LEMMA LeaveFacts ==
    ASSUME LockInv, NEW h \in Handlers, handler[h].pc \in {"read", "write"},
           NEW ok \in BOOLEAN, Leave(h, ok), UNCHANGED <<kind, orderLocks>>
    PROVE  \E k \in Requests :
              /\ handler' = [handler EXCEPT ![h] = k]
              /\ handler'[h] = k
              /\ k.pc = IF Unlocked(handler[h].order, handler[h].event) THEN "answer" ELSE "unlock"
              /\ k.order = handler[h].order /\ k.event = handler[h].event
              /\ k.at = handler[h].at /\ k.rcm = handler[h].rcm /\ k.ok = ok
              /\ HandlerOK(h)' /\ (InCriticalSection(h)' <=> InCriticalSection(h))
<1>1. handler[h] \in Requests /\ HandlerOK(h)
  BY RequestFacts
<1>p. PICK p \in {"answer", "unlock"} :
        p = IF Unlocked(handler[h].order, handler[h].event) THEN "answer" ELSE "unlock"
  OBVIOUS
<1>k. PICK k : k = [handler[h] EXCEPT !.ok = ok, !.pc = p]
  OBVIOUS
<1>2. /\ k \in Requests /\ k.pc = p /\ k.order = handler[h].order /\ k.event = handler[h].event
      /\ k.at = handler[h].at /\ k.rcm = handler[h].rcm /\ k.ok = ok
  BY <1>1, <1>k DEF Requests
<1>3. handler' = [handler EXCEPT ![h] = k]
  BY <1>k, <1>p DEF Leave, LockInv, POTypeOK
<1>4. handler'[h] = k
  BY <1>3 DEF LockInv, POTypeOK
<1>5. HandlerOK(h)' /\ (InCriticalSection(h)' <=> InCriticalSection(h))
  BY <1>1, <1>2, <1>4, <1>p DEF HandlerOK, InCriticalSection, Unlocked
<1> QED BY <1>2, <1>3, <1>4, <1>5, <1>p

\* What SaveOrder writes has its type.
LEMMA SaveTypes ==
    ASSUME LockInv, NEW h \in Handlers, handler[h].pc \in {"read", "write"}, SaveOrder(h)
    PROVE  status' \in [Orders -> Statuses] /\ credited' \in [Orders -> Nat]
<1>1. handler[h].order \in Orders /\ handler[h].event \in Events
  BY RequestFacts DEF HandlerOK, Requests
<1>2. StatusAfter(handler[h].event) \in Statuses
  BY <1>1 DEF StatusAfter, Statuses, Events
<1> QED BY <1>1, <1>2 DEF SaveOrder, LockInv, POTypeOK

LEMMA ReadOrderLocks ==
    ASSUME LockInv, NEW h \in Handlers, ReadOrder(h)
    PROVE  LockInv'
<1>0. handler[h].pc = "read" /\ UNCHANGED <<kind, checkout, acked, unread, orderLocks, lock, faults>>
  BY DEF ReadOrder, locks
<1>1. handler[h] \in Requests /\ HandlerOK(h)
  BY RequestFacts
<1>2. CASE handler' = [handler EXCEPT ![h].pc = "write"] /\ UNCHANGED <<status, credited>>
  <2>k. PICK k : k = [handler[h] EXCEPT !.pc = "write"]
    OBVIOUS
  <2>1. /\ k \in Requests /\ k.pc = "write" /\ k.order = handler[h].order
        /\ k.event = handler[h].event /\ k.at = handler[h].at /\ k.rcm = handler[h].rcm
    BY <1>1, <2>k DEF Requests
  <2>2. handler' = [handler EXCEPT ![h] = k]
    BY <1>2, <2>k DEF LockInv, POTypeOK
  <2>3. handler'[h] = k
    BY <2>2 DEF LockInv, POTypeOK
  <2>4. HandlerOK(h)' /\ (InCriticalSection(h)' <=> InCriticalSection(h))
    BY <1>0, <1>1, <2>1, <2>3 DEF HandlerOK, InCriticalSection, Unlocked
  <2> QED BY <1>0, <1>2, <2>1, <2>2, <2>4, OneMovesLocks DEF LockInv, POTypeOK
<1>3. CASE SaveOrder(h)
  <2>1. Leave(h, TRUE)
    BY <1>3 DEF SaveOrder
  <2> QED BY <1>0, <1>3, <2>1, LeaveFacts, SaveTypes, OneMovesLocks DEF LockInv, POTypeOK
<1>4. CASE Leave(h, ReplyNotPending(h, handler[h].order)) /\ UNCHANGED <<status, credited>>
  <2>1. ReplyNotPending(h, handler[h].order) \in BOOLEAN
    BY DEF ReplyNotPending
  <2> QED BY <1>0, <1>4, <2>1, LeaveFacts, OneMovesLocks DEF LockInv, POTypeOK
<1> QED BY <1>2, <1>3, <1>4 DEF ReadOrder

LEMMA WriteOrderLocks ==
    ASSUME LockInv, NEW h \in Handlers, WriteOrder(h)
    PROVE  LockInv'
<1>0. handler[h].pc = "write" /\ UNCHANGED <<kind, checkout, acked, unread, orderLocks, lock, faults>>
  BY DEF WriteOrder, locks
<1>1. Leave(h, TRUE) /\ SaveOrder(h)
  BY DEF WriteOrder, SaveOrder
<1> QED BY <1>0, <1>1, LeaveFacts, SaveTypes, OneMovesLocks DEF LockInv, POTypeOK

LEMMA TransactionFailsLocks ==
    ASSUME LockInv, NEW h \in Handlers, TransactionFails(h)
    PROVE  LockInv'
<1>0. /\ handler[h].pc \in {"read", "write"} /\ Leave(h, ReplyError(h, handler[h].order))
      /\ UNCHANGED <<kind, status, credited, checkout, acked, unread, orderLocks, lock>>
      /\ faults' \in 0 .. MaxFaults
  BY POConstants DEF TransactionFails, locks, orders, LockInv, POTypeOK
<1>1. ReplyError(h, handler[h].order) \in BOOLEAN
  BY DEF ReplyError
<1> QED BY <1>0, <1>1, LeaveFacts, OneMovesLocks DEF LockInv, POTypeOK

LEMMA LookupFailsLocks ==
    ASSUME LockInv, NEW h \in Handlers, LookupFails(h)
    PROVE  LockInv'
<1>1. handler[h] \in Requests /\ HandlerOK(h)
  BY RequestFacts
<1>0. /\ handler[h].pc \in {"lock", "read"}
      /\ UNCHANGED <<kind, status, credited, checkout, acked, orderLocks, lock>>
      /\ unread' = unread \cup {handler[h].order}
      /\ faults' \in 0 .. MaxFaults
  <2>1. faults \in 0 .. MaxFaults
    BY DEF LockInv, POTypeOK
  <2>2. faults < MaxFaults /\ faults' = faults + 1
    BY DEF LookupFails
  <2>3. faults' \in 0 .. MaxFaults
    BY <2>1, <2>2, POConstants
  <2> QED BY <2>3 DEF LookupFails, locks
<1>2. unread' \subseteq Orders
  BY <1>0, <1>1 DEF HandlerOK, LockInv, POTypeOK
<1>3. CASE /\ handler[h].pc = "lock"
           /\ handler' = [handler EXCEPT ![h].pc = "answer", ![h].ok = TRUE]
  <2>k. PICK k : k = [handler[h] EXCEPT !.pc = "answer", !.ok = TRUE]
    OBVIOUS
  <2>1. /\ k \in Requests /\ k.pc = "answer" /\ k.order = handler[h].order
        /\ k.event = handler[h].event /\ k.at = handler[h].at /\ k.rcm = handler[h].rcm
    BY <1>1, <2>k DEF Requests
  <2>2. handler' = [handler EXCEPT ![h] = k]
    BY <1>3, <2>k DEF LockInv, POTypeOK
  <2>3. handler'[h] = k
    BY <2>2 DEF LockInv, POTypeOK
  <2>4. HandlerOK(h)' /\ (InCriticalSection(h)' <=> InCriticalSection(h))
    BY <1>0, <1>1, <1>3, <2>1, <2>3 DEF HandlerOK, InCriticalSection
  <2> QED BY <1>0, <1>2, <2>1, <2>2, <2>4, OneMovesLocks DEF LockInv, POTypeOK
<1>4. CASE handler[h].pc = "read" /\ Leave(h, TRUE)
  BY <1>0, <1>2, <1>4, LeaveFacts, OneMovesLocks DEF LockInv, POTypeOK
<1> QED BY <1>3, <1>4 DEF LookupFails

LEMMA AnswerLocks ==
    ASSUME LockInv, NEW h \in Handlers, Answer(h)
    PROVE  LockInv'
<1>0. /\ handler[h].pc = "answer" /\ handler' = [handler EXCEPT ![h] = Idle] /\ Answered(h)
      /\ UNCHANGED <<kind, status, credited, checkout, unread, orderLocks, lock, faults>>
  BY DEF Answer, locks
<1>1. acked' \subseteq Orders
  BY <1>0, AnsweredType
<1>2. handler[h].rcm = None
  BY <1>0, RequestFacts DEF HandlerOK
<1>3. handler'[h] = Idle
  BY <1>0 DEF LockInv, POTypeOK
<1>4. HandlerOK(h)' /\ (InCriticalSection(h)' <=> InCriticalSection(h))
  BY <1>0, <1>3, IdleType DEF HandlerOK, InCriticalSection
<1> QED BY <1>0, <1>1, <1>2, <1>4, IdleType, OneMovesLocks DEF LockInv, POTypeOK

\* A process dies: its requests and its mutexes are gone, and no request of
\* another process pointed to one of them.
LEMMA CrashLocks ==
    ASSUME LockInv, NEW i \in Instances, Crash(i)
    PROVE  LockInv'
<1>d. PICK dead : dead = {h \in Handlers : handler[h].at = i}
  OBVIOUS
<1>0. /\ handler' = [h \in Handlers |-> IF h \in dead THEN Idle ELSE handler[h]]
      /\ orderLocks' = [orderLocks EXCEPT ![i] = [o \in Orders |-> None]]
      /\ lock' = [l \in Locks |-> IF \E h \in dead : handler[h].rcm = l
                                  THEN FreeLock ELSE lock[l]]
      /\ UNCHANGED <<kind, status, credited, checkout, acked, unread>>
      /\ faults' \in 0 .. MaxFaults
  BY <1>d, POConstants DEF Crash, orders, LockInv, POTypeOK
<1>1. /\ \A h \in Handlers : h \in dead => handler'[h] = Idle
      /\ \A h \in Handlers : h \notin dead => handler'[h] = handler[h]
  BY <1>0
<1>2. /\ \A o \in Orders : orderLocks'[i][o] = None
      /\ \A j \in Instances, o \in Orders : j # i => orderLocks'[j][o] = orderLocks[j][o]
      /\ orderLocks' \in [Instances -> [Orders -> Locks \cup {None}]]
  BY <1>0 DEF LockInv, POTypeOK
<1>3. /\ FreeLock.refCount = 0 /\ FreeLock.holder = None
      /\ FreeLock \in [refCount : 0 .. Cardinality(Handlers), holder : Handlers \cup {None}]
  BY FS_CardinalityType, POConstants DEF FreeLock
<1>4. POTypeOK'
  <2>1. handler' \in [Handlers -> Requests]
    BY <1>0, IdleType DEF LockInv, POTypeOK, Requests
  <2>2. lock' \in [Locks -> [refCount : 0 .. Cardinality(Handlers), holder : Handlers \cup {None}]]
    BY <1>0, <1>3 DEF LockInv, POTypeOK
  <2>3. UNCHANGED <<kind, status, credited, checkout, acked, unread>> /\ faults' \in 0 .. MaxFaults
    BY <1>0
  <2> QED BY <1>2, <2>1, <2>2, <2>3 DEF LockInv, POTypeOK, Requests
<1>5. ASSUME NEW g \in Handlers, NEW h \in Handlers, handler[g].rcm # None,
             handler[g].rcm = handler[h].rcm
      PROVE  handler[g].at = handler[h].at
  <2>1. /\ handler[g].pc # "idle" /\ handler[h].pc # "idle"
        /\ HandlerOK(g) /\ HandlerOK(h)
    BY <1>5, RequestFacts, IdleType DEF HandlerOK
  <2> QED BY <1>5, <2>1 DEF HandlerOK, LockInv, Distinct
<1>6. ASSUME NEW l \in Locks, NEW h \in dead, handler[h].rcm = l PROVE Refs(l)' = {}
  <2>1. \A g \in Handlers : handler[g].rcm = l => g \in dead
    BY <1>d, <1>5, <1>6, POConstants DEF Locks
  <2> QED BY <1>1, <2>1, IdleType, POConstants DEF Refs, Locks
<1>7. ASSUME NEW l \in Locks, ~\E h \in dead : handler[h].rcm = l PROVE Refs(l)' = Refs(l)
  BY <1>1, <1>7, IdleType, POConstants DEF Refs, Locks
<1>8. ASSUME NEW g \in Handlers PROVE HandlerOK(g)'
  <2>1. CASE g \in dead
    BY <1>1, <2>1, IdleType DEF HandlerOK
  <2>2. CASE g \notin dead
    <3>1. handler'[g] = handler[g] /\ HandlerOK(g) /\ handler[g].at # i
      BY <1>1, <1>d, <2>2, RequestFacts
    <3>2. ASSUME handler[g].rcm # None
          PROVE  orderLocks'[handler[g].at][handler[g].order] = handler[g].rcm
      BY <1>2, <3>1, <3>2, IdleType DEF HandlerOK
    <3> QED BY <1>0, <3>1, <3>2 DEF HandlerOK, Unlocked
  <2> QED BY <2>1, <2>2
<1>9. Distinct'
  BY <1>2 DEF LockInv, Distinct
<1>10. Counted'
  <2>1. ASSUME NEW l \in Locks PROVE lock'[l].refCount = Cardinality(Refs(l)')
    <3>1. CASE \E h \in dead : handler[h].rcm = l
      <4>1. Refs(l)' = {}
        BY <1>6, <3>1
      <4> QED BY <1>0, <1>3, <3>1, <4>1, FS_EmptySet
    <3>2. CASE ~\E h \in dead : handler[h].rcm = l
      BY <1>0, <1>7, <3>2 DEF LockInv, Counted
    <3> QED BY <3>1, <3>2
  <2>2. ASSUME NEW j \in Instances, NEW p \in Orders, orderLocks'[j][p] # None
        PROVE  Refs(orderLocks[j][p])' # {}
    <3>1. j # i /\ orderLocks'[j][p] = orderLocks[j][p] /\ orderLocks[j][p] \in Locks
      BY <1>2, <2>2 DEF LockInv, POTypeOK
    <3>m. PICK m \in Locks : m = orderLocks[j][p] /\ m = orderLocks'[j][p]
      BY <3>1
    <3>2. Refs(m) # {}
      BY <2>2, <3>m DEF LockInv, Counted
    <3>g. PICK g \in Handlers : handler[g].rcm = m
      BY <3>2 DEF Refs
    <3>3. handler[g].at = j
      <4>1. handler[g].pc # "idle" /\ HandlerOK(g) /\ m # None
        BY <3>g, RequestFacts, IdleType, POConstants DEF HandlerOK, Locks
      <4>2. /\ handler[g].at \in Instances /\ handler[g].order \in Orders
            /\ orderLocks[handler[g].at][handler[g].order] = m
        BY <3>g, <4>1 DEF HandlerOK
      <4>3. /\ orderLocks[handler[g].at][handler[g].order] # None
            /\ orderLocks[handler[g].at][handler[g].order] = orderLocks[j][p]
        BY <3>m, <4>1, <4>2
      <4>4. Distinct
        BY DEF LockInv
      <4> QED BY <4>2, <4>3, <4>4 DEF Distinct
    <3>4. ~\E h \in dead : handler[h].rcm = m
      BY <1>d, <1>5, <3>1, <3>3, <3>g, POConstants DEF Locks
    <3> QED BY <1>7, <3>2, <3>4, <3>m
  <2> QED BY <2>1, <2>2 DEF Counted
<1>11. Held'
  <2>1. ASSUME NEW g \in Handlers, g \notin dead
        PROVE  InCriticalSection(g)' <=> InCriticalSection(g)
    BY <1>0, <1>1, <2>1 DEF InCriticalSection, Unlocked
  <2>2. ASSUME NEW g \in Handlers, InCriticalSection(g)' PROVE lock'[handler'[g].rcm].holder = g
    <3>1. g \notin dead
      BY <1>1, <2>2, IdleType DEF InCriticalSection
    <3>2. lock[handler[g].rcm].holder = g /\ handler[g].rcm \in Locks
      BY <2>1, <2>2, <3>1, RequestFacts DEF LockInv, Held, HandlerOK, InCriticalSection, Requests
    <3>3. ~\E h \in dead : handler[h].rcm = handler[g].rcm
      BY <1>5, <1>d, <3>1, <3>2, POConstants DEF Locks
    <3> QED BY <1>0, <1>1, <3>1, <3>2, <3>3
  <2>3. ASSUME NEW m \in Locks, lock'[m].holder # None
        PROVE  handler'[lock'[m].holder].rcm = m /\ InCriticalSection(lock[m].holder)'
    <3>1. ~(\E h \in dead : handler[h].rcm = m) /\ lock'[m] = lock[m]
      BY <1>0, <1>3, <2>3
    <3>g. PICK g \in Handlers : g = lock[m].holder /\ g = lock'[m].holder
      BY <2>3, <3>1 DEF LockInv, POTypeOK
    <3>2. handler[g].rcm = m /\ InCriticalSection(g)
      BY <2>3, <3>1, <3>g DEF LockInv, Held
    <3> QED BY <1>1, <2>1, <3>1, <3>g, <3>2
  <2> QED BY <2>2, <2>3 DEF Held
<1> QED BY <1>4, <1>8, <1>9, <1>10, <1>11 DEF LockInv

LEMMA LockNext ==
    ASSUME LockInv, [Next]_vars
    PROVE  LockInv'
<1>1. ASSUME NEW o \in Orders,
             RequestPay(o) \/ CheckoutCreated(o) \/ CheckoutRefused(o) \/ CheckoutEnds(o)
      PROVE  LockInv'
  BY <1>1, EnvironmentTypes, OrdersMoveLocks
<1>2. ASSUME NEW h \in Handlers, NEW o \in Orders, NEW i \in Instances,
             Notify(h, o, i) \/ AdminCompleteTopUp(h, o, i)
      PROVE  LockInv'
  <2>1. Notices(o) \subseteq Events
    BY DEF Notices, Outcomes, Events
  <2>2. "admin" \in Events
    BY DEF Events
  <2> QED BY <1>2, <2>1, <2>2, BeginLocks DEF Notify, AdminCompleteTopUp
<1>3. ASSUME NEW h \in Handlers, Runs(h) \/ Acquire(h) \/ TransactionFails(h) \/ LookupFails(h)
      PROVE  LockInv'
  BY <1>3, LockOrderLocks, ReadOrderLocks, WriteOrderLocks, AnswerLocks, UnlockOrderLocks,
     ReleaseLocks, AcquireLocks, TransactionFailsLocks, LookupFailsLocks DEF Runs
<1>4. CASE UNCHANGED vars
  <2>1. UNCHANGED <<kind, status, credited, checkout, acked, unread, handler, orderLocks, lock, faults>>
    BY <1>4 DEF vars
  <2> QED BY <2>1, OrdersMoveLocks DEF LockInv, POTypeOK
<1> QED BY <1>1, <1>2, <1>3, <1>4, CrashLocks DEF Next, Environment

\* The reference counts of LockOrder and UnlockOrder: the map of mutexes, the
\* counts and the holders agree with what the requests are doing.
THEOREM LockInvariant == Spec => []LockInv
<1>1. Init => LockInv
  BY LockInit
<1>2. LockInv /\ [Next]_vars => LockInv'
  BY LockNext
<1> QED BY <1>1, <1>2, PTL DEF Spec

\* Every variable keeps its type, and no reference count falls below zero or
\* above the number of requests (refCountedMutex.refCount).
THEOREM POTypeCorrect == Spec => []POTypeOK
<1>1. LockInv => POTypeOK
  BY DEF LockInv
<1> QED BY <1>1, LockInvariant, PTL

\* Of one order and process, one request is between LockOrder and UnlockOrder.
LEMMA LockInvMutex ==
    ASSUME LockInv, NEW g \in Handlers, NEW h \in Handlers,
           InCriticalSection(g), InCriticalSection(h),
           handler[g].order = handler[h].order, handler[g].at = handler[h].at
    PROVE  g = h
<1>1. handler[g].rcm = handler[h].rcm
  BY RequestFacts DEF HandlerOK, InCriticalSection
<1> QED BY <1>1 DEF LockInv, Held

\* LockOrder is a mutex per order and process, and the map orderLocks does not
\* leak: for any number of requests, orders and processes.
THEOREM LockOrderMutex == Spec => []LockOrderWorks
<1>1. LockInv => LockOrderWorks
  <2> SUFFICES ASSUME LockInv PROVE LockOrderWorks
    OBVIOUS
  <2>1. ASSUME NEW i \in Instances, NEW o \in Orders, orderLocks[i][o] # None
        PROVE  \E h \in Handlers : handler[h].at = i /\ handler[h].order = o
    <3>g. PICK g \in Handlers : handler[g].rcm = orderLocks[i][o]
      BY <2>1 DEF LockInv, Counted, Refs
    <3>1. handler[g].pc # "idle" /\ HandlerOK(g)
      BY <2>1, <3>g, RequestFacts, IdleType DEF HandlerOK
    <3> QED BY <2>1, <3>g, <3>1 DEF HandlerOK, LockInv, Distinct
  <2> QED BY <2>1, LockInvMutex DEF LockOrderWorks
<1> QED BY <1>1, LockInvariant, PTL

-----------------------------------------------------------------------------
(* The credits, in one process.                                            *)

\* The facts about a request and about the order it works on.
LEMMA CreditFacts ==
    ASSUME CreditInv, NEW h \in Handlers, handler[h].pc # "idle"
    PROVE  /\ handler[h].order \in Orders /\ handler[h].at \in Instances
           /\ handler[h] \in Requests /\ handler[h].event \in Events
           /\ EventOK(h) /\ WriteOK(h) /\ ReplyOK(h) /\ OrderOK(handler[h].order)
<1>1. LockInv /\ \A o \in Orders : OrderOK(o)
  BY DEF CreditInv
<1>2. handler[h] \in Requests /\ HandlerOK(h)
  BY <1>1, RequestFacts
<1> QED BY <1>1, <1>2 DEF CreditInv, HandlerOK, Requests

\* A step that leaves rows and checkouts alone; requests end or go on, and
\* none comes to write.
LEMMA SameCredits ==
    ASSUME CreditInv, LockInv', UNCHANGED <<kind, status, credited, checkout, unread>>,
           \A h \in Handlers :
              \/ handler'[h].pc = "idle"
              \/ /\ handler[h].pc # "idle"
                 /\ handler'[h].pc = "write" => handler[h].pc = "write"
                 /\ handler'[h].order = handler[h].order
                 /\ handler'[h].event = handler[h].event
                 /\ handler'[h].ok = handler[h].ok,
           \A o \in Orders : OrderOK(o)'
    PROVE  CreditInv'
<1>1. ASSUME NEW h \in Handlers PROVE EventOK(h)' /\ WriteOK(h)' /\ ReplyOK(h)'
  <2>1. CASE handler'[h].pc = "idle"
    BY <2>1 DEF EventOK, WriteOK, ReplyOK
  <2>2. CASE handler'[h].pc # "idle"
    <3>1. /\ handler[h].pc # "idle"
          /\ handler'[h].pc = "write" => handler[h].pc = "write"
          /\ handler'[h].order = handler[h].order
          /\ handler'[h].event = handler[h].event
          /\ handler'[h].ok = handler[h].ok
      BY <2>2
    <3>2. EventOK(h)'
      BY <3>1 DEF CreditInv, EventOK, Outcomes, Unlocked
    <3>3. WriteOK(h)'
      BY <3>1 DEF CreditInv, WriteOK, Unlocked, WrittenUnderLock
    <3>4. ReplyOK(h)'
      BY <3>1 DEF CreditInv, ReplyOK, IgnoresErrors, Is
    <3> QED BY <3>2, <3>3, <3>4
  <2> QED BY <2>1, <2>2
<1> QED BY <1>1 DEF CreditInv

LEMMA SameOrders ==
    ASSUME CreditInv, UNCHANGED <<kind, status, credited, checkout, acked>>,
           unread \subseteq unread'
    PROVE  \A o \in Orders : OrderOK(o)'
BY DEF CreditInv, OrderOK, WrittenUnderLock, IgnoresErrors, Is

\* A provider is told "success" of a payment that was credited, or given up.
LEMMA AnsweredOrders ==
    ASSUME CreditInv, NEW h \in Handlers, handler[h].pc # "idle", Answered(h),
           UNCHANGED <<kind, status, credited, checkout, unread>>
    PROVE  \A o \in Orders : OrderOK(o)'
<1> SUFFICES ASSUME NEW o \in Orders PROVE OrderOK(o)'
  OBVIOUS
<1>1. OrderOK(o) /\ EventOK(h) /\ ReplyOK(h)
  BY DEF CreditInv
<1>2. o \in acked' => \/ o \in acked
                      \/ o = handler[h].order /\ handler[h].event = "paid" /\ handler[h].ok
  BY DEF Answered
<1>3. o \in acked' => checkout[o] = "paid"
  BY <1>1, <1>2 DEF OrderOK, EventOK, Unlocked
<1>4. o \in acked' /\ ~IgnoresErrors(o) => credited[o] = 1 \/ o \in unread
  BY <1>1, <1>2 DEF OrderOK, ReplyOK
<1> QED BY <1>1, <1>3, <1>4 DEF OrderOK, WrittenUnderLock, IgnoresErrors, Is

LEMMA CreditInit == Init => CreditInv
<1> SUFFICES ASSUME Init PROVE CreditInv
  OBVIOUS
<1>1. LockInv
  BY LockInit
<1>2. \A h \in Handlers : handler[h].pc = "idle"
  BY IdleType DEF Init
<1>3. \A h \in Handlers : EventOK(h) /\ WriteOK(h) /\ ReplyOK(h)
  BY <1>2 DEF EventOK, WriteOK, ReplyOK
<1>4. \A o \in Orders : OrderOK(o)
  BY DEF Init, OrderOK
<1> QED BY <1>1, <1>3, <1>4 DEF CreditInv

\* The steps of LockOrder and UnlockOrder, answers and crashes credit nothing.
LEMMA LockStepsCredit ==
    ASSUME CreditInv, LockInv', NEW h \in Handlers,
           LockOrder(h) \/ Acquire(h) \/ UnlockOrder(h) \/ Release(h) \/ Answer(h)
    PROVE  CreditInv'
<1>1. handler[h] \in Requests /\ HandlerOK(h) /\ handler \in [Handlers -> Requests]
  BY RequestFacts DEF CreditInv, LockInv, POTypeOK, Requests
<1>2. CASE LockOrder(h)
  <2>0. /\ handler[h].pc = "lock" /\ UNCHANGED <<kind, status, credited, checkout, acked, unread>>
        /\ \E l \in Locks : handler' = [handler EXCEPT ![h].pc = "wait", ![h].rcm = l]
    BY <1>2 DEF LockOrder, orders
  <2>l. PICK l \in Locks : handler' = [handler EXCEPT ![h].pc = "wait", ![h].rcm = l]
    BY <2>0
  <2>1. /\ \A g \in Handlers : g # h => handler'[g] = handler[g]
        /\ handler'[h].pc = "wait" /\ handler'[h].order = handler[h].order
        /\ handler'[h].event = handler[h].event /\ handler'[h].ok = handler[h].ok
    BY <1>1, <2>l DEF Requests
  <2> QED BY <2>0, <2>1, SameOrders, SameCredits
<1>3. CASE Acquire(h)
  <2>0. /\ handler[h].pc = "wait" /\ UNCHANGED <<kind, status, credited, checkout, acked, unread>>
        /\ handler' = [handler EXCEPT ![h].pc = "read"]
    BY <1>3 DEF Acquire, orders
  <2>1. /\ \A g \in Handlers : g # h => handler'[g] = handler[g]
        /\ handler'[h].pc = "read" /\ handler'[h].order = handler[h].order
        /\ handler'[h].event = handler[h].event /\ handler'[h].ok = handler[h].ok
    BY <1>1, <2>0 DEF Requests
  <2> QED BY <2>0, <2>1, SameOrders, SameCredits
<1>4. CASE UnlockOrder(h)
  <2>0. handler[h].pc = "unlock" /\ UNCHANGED <<kind, status, credited, checkout, unread>>
    BY <1>4 DEF UnlockOrder
  <2>1. orderLocks[handler[h].at][handler[h].order] # None
    BY <1>1, <2>0 DEF HandlerOK
  <2>2. /\ acked' = acked
        /\ \E l : handler' = [handler EXCEPT ![h].pc = "release", ![h].rcm = l]
    BY <1>4, <2>1 DEF UnlockOrder
  <2>l. PICK l : handler' = [handler EXCEPT ![h].pc = "release", ![h].rcm = l]
    BY <2>2
  <2>3. /\ \A g \in Handlers : g # h => handler'[g] = handler[g]
        /\ handler'[h].pc = "release" /\ handler'[h].order = handler[h].order
        /\ handler'[h].event = handler[h].event /\ handler'[h].ok = handler[h].ok
    BY <1>1, <2>l DEF Requests
  <2> QED BY <2>0, <2>2, <2>3, SameOrders, SameCredits
<1>5. CASE Release(h) \/ Answer(h)
  <2>0. /\ handler[h].pc # "idle" /\ Answered(h)
        /\ UNCHANGED <<kind, status, credited, checkout, unread>>
        /\ handler' = [handler EXCEPT ![h] = Idle]
    BY <1>5 DEF Release, Answer
  <2>1. handler'[h].pc = "idle" /\ \A g \in Handlers : g # h => handler'[g] = handler[g]
    BY <1>1, <2>0, IdleType
  <2> QED BY <2>0, <2>1, AnsweredOrders, SameCredits
<1> QED BY <1>2, <1>3, <1>4, <1>5

LEMMA CrashCredits ==
    ASSUME CreditInv, LockInv', NEW i \in Instances, Crash(i)
    PROVE  CreditInv'
<1>1. /\ UNCHANGED <<kind, status, credited, checkout, acked, unread>>
      /\ \A h \in Handlers : handler'[h] = Idle \/ handler'[h] = handler[h]
  BY DEF Crash, orders
<1> QED BY <1>1, IdleType, SameOrders, SameCredits

\* One request goes on with the row as it is: its own facts hold, so all do.
LEMMA OneMovesCredits ==
    ASSUME CreditInv, LockInv', NEW h \in Handlers,
           \A g \in Handlers : g # h => handler'[g] = handler[g],
           UNCHANGED <<kind, status, credited, checkout, acked>>, unread \subseteq unread',
           EventOK(h)', WriteOK(h)', ReplyOK(h)'
    PROVE  CreditInv'
<1>1. ASSUME NEW g \in Handlers, g # h PROVE EventOK(g)' /\ WriteOK(g)' /\ ReplyOK(g)'
  <2>1. handler'[g] = handler[g] /\ EventOK(g) /\ WriteOK(g) /\ ReplyOK(g)
    BY <1>1 DEF CreditInv
  <2>2. EventOK(g)'
    BY <2>1 DEF EventOK, Outcomes, Unlocked
  <2>3. WriteOK(g)'
    BY <2>1 DEF WriteOK, Unlocked, WrittenUnderLock
  <2>4. ReplyOK(g)'
    BY <2>1 DEF ReplyOK, IgnoresErrors, Is
  <2> QED BY <2>2, <2>3, <2>4
<1> QED BY <1>1, SameOrders DEF CreditInv

LEMMA BeginCredits ==
    ASSUME CreditInv, LockInv', NEW h \in Handlers, NEW o \in Orders, NEW i \in Instances,
           Notify(h, o, i) \/ AdminCompleteTopUp(h, o, i)
    PROVE  CreditInv'
<1>e. PICK event :
        /\ Begin(h, o, i, event)
        /\ event = "admin" => status[o] # "none" /\ kind[o].product = "topup"
        /\ event # "admin" =>
              /\ event \in Outcomes(o)
              /\ event = checkout[o] \/ (Unlocked(o, event) /\ checkout[o] # "none")
  <2>1. "admin" \notin Outcomes(o)
    BY DEF Outcomes
  <2>2. CASE Notify(h, o, i)
    BY <2>1, <2>2 DEF Notify, Notices
  <2>3. CASE AdminCompleteTopUp(h, o, i)
    BY <2>3 DEF AdminCompleteTopUp
  <2> QED BY <2>2, <2>3
<1>1. status[o] # "none"
  <2>1. "none" \notin Outcomes(o) /\ OrderOK(o)
    BY DEF Outcomes, CreditInv
  <2> QED BY <1>e, <2>1 DEF OrderOK
<1>2. handler \in [Handlers -> Requests]
  BY DEF CreditInv, LockInv, POTypeOK, Requests
<1>3. /\ UNCHANGED <<kind, status, credited, checkout, acked, unread>>
      /\ \A g \in Handlers : g # h => handler'[g] = handler[g]
      /\ handler'[h].pc # "write" /\ handler'[h].order = o /\ handler'[h].event = event
      /\ handler'[h].ok = FALSE
  BY <1>e, <1>2 DEF Begin, orders
<1>4. EventOK(h)' /\ WriteOK(h)' /\ ReplyOK(h)'
  BY <1>e, <1>1, <1>3 DEF EventOK, WriteOK, ReplyOK, Outcomes, Unlocked
<1> QED BY <1>3, <1>4, OneMovesCredits

\* The shop and the provider move one order; whoever works on it then is the
\* administrator or marks a failure of waffo, since every other notification
\* needs a checkout that ended.
LEMMA EnvironmentCredits ==
    ASSUME CreditInv, LockInv', NEW o \in Orders,
           RequestPay(o) \/ CheckoutCreated(o) \/ CheckoutRefused(o) \/ CheckoutEnds(o)
    PROVE  CreditInv'
<1>1. /\ UNCHANGED <<kind, credited, acked, unread, handler>>
      /\ status \in [Orders -> Statuses] /\ checkout \in [Orders -> Checkouts]
      /\ kind \in [Orders -> Kinds] /\ credited \in [Orders -> Nat]
  BY EnvironmentTypes DEF CreditInv, LockInv, POTypeOK
<1>2. \A p \in Orders : p # o => status'[p] = status[p] /\ checkout'[p] = checkout[p]
  BY <1>1 DEF RequestPay, CheckoutCreated, CheckoutRefused, CheckoutEnds
<1>3. OrderOK(o) /\ o \notin acked /\ checkout[o] \in {"none", "open"}
  <2>1. OrderOK(o)
    BY DEF CreditInv
  <2>2. checkout[o] \in {"none", "open"}
    BY <2>1 DEF RequestPay, CheckoutCreated, CheckoutRefused, CheckoutEnds, OrderOK
  <2> QED BY <2>1, <2>2 DEF OrderOK
<1>4. ASSUME NEW h \in Handlers, handler[h].pc # "idle", handler[h].order = o
      PROVE  /\ status[o] # "none"
             /\ \/ handler[h].event = "admin" /\ kind[o].product = "topup"
                \/ /\ Unlocked(o, handler[h].event) /\ checkout[o] # "none"
                   /\ handler[h].event \in Outcomes(o)
  <2>1. EventOK(h)
    BY DEF CreditInv
  <2>2. "none" \notin Outcomes(o) /\ "open" \notin Outcomes(o)
    BY DEF Outcomes
  <2> QED BY <1>3, <1>4, <2>1, <2>2 DEF EventOK
<1>5. /\ status'[o] # "none"
      /\ status[o] \notin {"none", "pending"} /\ WrittenUnderLock(o) => status'[o] = status[o]
      /\ status'[o] = "success" => status[o] = "success"
      /\ status'[o] = "pending" => status[o] \in {"none", "pending"}
      /\ kind[o].provider = "creem" => status'[o] \in {status[o], "pending"}
      /\ kind[o].product = "topup" /\ WrittenUnderLock(o) /\ status[o] # "none"
           => status'[o] = status[o]
  <2>1. CASE RequestPay(o)
    BY <1>1, <2>1 DEF RequestPay
  <2>2. CASE CheckoutCreated(o)
    BY <1>1, <2>2 DEF CheckoutCreated
  <2>3. CASE CheckoutEnds(o)
    <3>1. status' = status /\ status[o] # "none"
      BY <1>3, <2>3 DEF CheckoutEnds, OrderOK
    <3> QED BY <3>1
  <2>4. CASE CheckoutRefused(o)
    <3>1. status'[o] = StatusAfterRefusal(o) /\ status[o] # "none"
      BY <1>1, <2>4 DEF CheckoutRefused
    <3>2. Is(o, "epay", "subscription") => kind[o].provider = "epay" /\ kind[o].product = "subscription"
      BY DEF Is
    <3> QED BY <3>1, <3>2 DEF StatusAfterRefusal, WrittenUnderLock
  <2> QED BY <2>1, <2>2, <2>3, <2>4
<1>6. OrderOK(o)'
  BY <1>1, <1>3, <1>5 DEF OrderOK, WrittenUnderLock
<1>7. ASSUME NEW p \in Orders PROVE OrderOK(p)'
  <2>1. CASE p = o
    BY <1>6, <2>1
  <2>2. CASE p # o
    <3>1. OrderOK(p) /\ status'[p] = status[p] /\ checkout'[p] = checkout[p]
      BY <1>2, <2>2 DEF CreditInv
    <3> QED BY <1>1, <3>1 DEF OrderOK, WrittenUnderLock, IgnoresErrors, Is
  <2> QED BY <2>1, <2>2
<1>8. ASSUME NEW h \in Handlers PROVE EventOK(h)' /\ WriteOK(h)' /\ ReplyOK(h)'
  <2>1. CASE handler[h].pc = "idle"
    BY <1>1, <2>1 DEF EventOK, WriteOK, ReplyOK
  <2>2. CASE handler[h].pc # "idle" /\ handler[h].order = o
    <3>1. EventOK(h)' /\ ReplyOK(h)'
      <4>1. checkout[o] # "none" => checkout'[o] # "none"
        <5>1. "none" \notin Outcomes(o)
          BY DEF Outcomes
        <5> QED BY <1>1, <5>1 DEF RequestPay, CheckoutCreated, CheckoutRefused, CheckoutEnds
      <4> QED BY <1>1, <1>4, <1>5, <2>2, <4>1 DEF EventOK, ReplyOK, Outcomes, Unlocked
    <3>2. WriteOK(h)'
      BY <1>1, <1>4, <1>5, <2>2 DEF CreditInv, WriteOK, Unlocked, WrittenUnderLock
    <3> QED BY <3>1, <3>2
  <2>3. CASE handler[h].pc # "idle" /\ handler[h].order # o
    <3>0. /\ handler[h].order \in Orders /\ EventOK(h) /\ WriteOK(h) /\ ReplyOK(h)
          /\ status'[handler[h].order] = status[handler[h].order]
          /\ checkout'[handler[h].order] = checkout[handler[h].order]
      BY <1>2, <2>3, CreditFacts
    <3>1. EventOK(h)'
      BY <1>1, <3>0 DEF EventOK, Outcomes, Unlocked
    <3>2. WriteOK(h)'
      BY <1>1, <3>0 DEF WriteOK, Unlocked, WrittenUnderLock
    <3>3. ReplyOK(h)'
      BY <1>1, <3>0 DEF ReplyOK, IgnoresErrors, Is
    <3> QED BY <3>1, <3>2, <3>3
  <2> QED BY <2>1, <2>2, <2>3
<1> QED BY <1>7, <1>8 DEF CreditInv

\* Leave: the reply that goes out later is true.
LEMMA LeaveCredits ==
    ASSUME CreditInv, LockInv', NEW h \in Handlers, handler[h].pc \in {"read", "write"},
           NEW ok \in BOOLEAN, Leave(h, ok),
           UNCHANGED <<kind, status, credited, checkout, acked, orderLocks>>,
           unread \subseteq unread',
           ok /\ handler[h].event = "paid" /\ ~IgnoresErrors(handler[h].order)
             => credited[handler[h].order] = 1 \/ handler[h].order \in unread'
    PROVE  CreditInv'
<1>1. LockInv /\ handler \in [Handlers -> Requests]
  BY DEF CreditInv, LockInv, POTypeOK, Requests
<1>k. PICK k \in Requests :
        /\ handler' = [handler EXCEPT ![h] = k] /\ handler'[h] = k
        /\ k.pc \in {"answer", "unlock"}
        /\ k.order = handler[h].order /\ k.event = handler[h].event /\ k.ok = ok
  BY <1>1, LeaveFacts
<1>2. \A g \in Handlers : g # h => handler'[g] = handler[g]
  BY <1>1, <1>k
<1>3. handler[h].order \in Orders /\ EventOK(h)
  BY CreditFacts
<1>4. EventOK(h)' /\ WriteOK(h)'
  BY <1>3, <1>k DEF EventOK, WriteOK, Outcomes, Unlocked
<1>5. ReplyOK(h)'
  BY <1>3, <1>k DEF EventOK, ReplyOK, IgnoresErrors, Is
<1> QED BY <1>2, <1>4, <1>5, OneMovesCredits

LEMMA TransactionFailsCredits ==
    ASSUME CreditInv, LockInv', NEW h \in Handlers, TransactionFails(h)
    PROVE  CreditInv'
<1>0. /\ handler[h].pc \in {"read", "write"} /\ Leave(h, ReplyError(h, handler[h].order))
      /\ UNCHANGED <<kind, status, credited, checkout, acked, unread, orderLocks>>
  BY DEF TransactionFails, locks, orders
<1>1. /\ ReplyError(h, handler[h].order) \in BOOLEAN
      /\ ReplyError(h, handler[h].order) /\ handler[h].event = "paid"
           => IgnoresErrors(handler[h].order)
  BY DEF ReplyError
<1> QED BY <1>0, <1>1, LeaveCredits

\* The order could not be looked up: it is answered for, and remembered as such.
LEMMA LookupFailsCredits ==
    ASSUME CreditInv, LockInv', NEW h \in Handlers, LookupFails(h)
    PROVE  CreditInv'
<1>0. /\ handler[h].pc \in {"lock", "read"}
      /\ UNCHANGED <<kind, status, credited, checkout, acked, orderLocks>>
      /\ unread' = unread \cup {handler[h].order}
  BY DEF LookupFails, locks
<1>1. /\ handler[h] \in Requests /\ EventOK(h) /\ handler \in [Handlers -> Requests]
  BY <1>0, CreditFacts DEF CreditInv, LockInv, POTypeOK, Requests
<1>2. CASE handler' = [handler EXCEPT ![h].pc = "answer", ![h].ok = TRUE]
  <2>1. /\ \A g \in Handlers : g # h => handler'[g] = handler[g]
        /\ handler'[h].pc = "answer" /\ handler'[h].order = handler[h].order
        /\ handler'[h].event = handler[h].event
    BY <1>1, <1>2 DEF Requests
  <2>2. EventOK(h)' /\ WriteOK(h)' /\ ReplyOK(h)'
    BY <1>0, <1>1, <2>1 DEF EventOK, WriteOK, ReplyOK, Outcomes, Unlocked
  <2> QED BY <1>0, <2>1, <2>2, OneMovesCredits
<1>3. CASE handler[h].pc = "read" /\ Leave(h, TRUE)
  BY <1>0, <1>3, LeaveCredits
<1> QED BY <1>2, <1>3 DEF LookupFails

\* The whole row is saved: nobody else of the process is between LockOrder
\* and UnlockOrder of the order, so the row is still what was read.
LEMMA SaveCredits ==
    ASSUME OneProcess, CreditInv, LockInv', NEW h \in Handlers,
           handler[h].pc \in {"read", "write"}, SaveOrder(h),
           ~Unlocked(handler[h].order, handler[h].event) =>
              /\ credited[handler[h].order] = 0
              /\ WrittenUnderLock(handler[h].order) => status[handler[h].order] = "pending",
           UNCHANGED <<kind, checkout, acked, unread, orderLocks>>
    PROVE  CreditInv'
<1>1. LockInv /\ handler \in [Handlers -> Requests]
  BY DEF CreditInv, LockInv, POTypeOK, Requests
<1>2. /\ handler[h].order \in Orders /\ handler[h].at \in Instances /\ handler[h].event \in Events
      /\ EventOK(h) /\ OrderOK(handler[h].order)
  BY CreditFacts
<1>o. PICK o \in Orders, e \in Events : o = handler[h].order /\ e = handler[h].event
  BY <1>2
<1>3. /\ status' = [status EXCEPT ![o] = StatusAfter(e)]
      /\ credited' = IF Credits(e) THEN [credited EXCEPT ![o] = @ + 1] ELSE credited
      /\ Leave(h, TRUE)
  BY <1>o DEF SaveOrder
<1>4. /\ status'[o] = StatusAfter(e) /\ credited'[o] = IF Credits(e) THEN credited[o] + 1 ELSE credited[o]
      /\ \A p \in Orders : p # o => status'[p] = status[p] /\ credited'[p] = credited[p]
      /\ credited[o] \in Nat
  BY <1>3 DEF CreditInv, LockInv, POTypeOK
<1>k. PICK k \in Requests :
        /\ handler' = [handler EXCEPT ![h] = k] /\ handler'[h] = k
        /\ k.pc \in {"answer", "unlock"}
        /\ k.order = o /\ k.event = e /\ k.ok = TRUE
  BY <1>1, <1>3, <1>o, LeaveFacts
<1>5. \A g \in Handlers : g # h => handler'[g] = handler[g]
  BY <1>1, <1>k
<1>6. \/ /\ e \in {"paid", "admin"} /\ ~Unlocked(o, e)
         /\ status'[o] = "success" /\ credited'[o] = 1 /\ credited[o] = 0
      \/ /\ e \in {"failed", "expired"} /\ status'[o] = e /\ credited'[o] = credited[o]
         /\ kind[o].provider \in {"stripe", "waffo"}
         /\ ~Unlocked(o, e) => credited[o] = 0
         /\ Unlocked(o, e) => kind[o].provider = "waffo"
  <2>1. CASE e \in {"paid", "admin"}
    <3>1. ~Unlocked(o, e) /\ StatusAfter(e) = "success" /\ Credits(e)
      BY <2>1 DEF Unlocked, StatusAfter, Credits
    <3> QED BY <1>4, <1>o, <2>1, <3>1
  <2>2. CASE e \in {"failed", "expired"}
    <3>1. StatusAfter(e) = e /\ ~Credits(e)
      BY <2>2 DEF StatusAfter, Credits
    <3>2. e \in Outcomes(o)
      BY <1>2, <1>o, <2>2 DEF EventOK
    <3>3. kind[o].provider \in {"stripe", "waffo"}
      BY <2>2, <3>2 DEF Outcomes
    <3> QED BY <1>4, <1>o, <2>2, <3>1, <3>2, <3>3 DEF Unlocked
  <2> QED BY <2>1, <2>2 DEF Events
<1>7. OrderOK(o)'
  <2>1. OrderOK(o) /\ status[o] # "none"
    BY <1>2, <1>o DEF EventOK
  <2>2. CASE e \in {"paid", "admin"}
    BY <1>6, <2>1, <2>2 DEF OrderOK
  <2>3. CASE e \in {"failed", "expired"}
    <3>1. ~Unlocked(o, e) \/ ~WrittenUnderLock(o)
      BY <1>6, <2>3 DEF WrittenUnderLock
    <3> QED BY <1>6, <2>1, <2>3, <3>1 DEF OrderOK, WrittenUnderLock, IgnoresErrors, Is
  <2> QED BY <2>2, <2>3 DEF Events
<1>8. ASSUME NEW p \in Orders PROVE OrderOK(p)'
  <2>1. CASE p = o
    BY <1>7, <2>1
  <2>2. CASE p # o
    <3>1. OrderOK(p) /\ status'[p] = status[p] /\ credited'[p] = credited[p]
      BY <1>4, <2>2 DEF CreditInv
    <3> QED BY <3>1 DEF OrderOK, WrittenUnderLock, IgnoresErrors, Is
  <2> QED BY <2>1, <2>2
<1>9. EventOK(h)' /\ WriteOK(h)' /\ ReplyOK(h)'
  <2>1. status'[o] # "none"
    BY <1>6
  <2>2. EventOK(h)'
    BY <1>2, <1>k, <1>o, <2>1 DEF EventOK, Outcomes, Unlocked
  <2>3. WriteOK(h)'
    BY <1>k DEF WriteOK
  <2>4. ReplyOK(h)'
    BY <1>6, <1>k DEF ReplyOK
  <2> QED BY <2>2, <2>3, <2>4
<1>10. ASSUME NEW g \in Handlers, g # h PROVE EventOK(g)' /\ WriteOK(g)' /\ ReplyOK(g)'
  <2>0. handler'[g] = handler[g]
    BY <1>5, <1>10
  <2>1. CASE handler[g].pc = "idle"
    BY <2>0, <2>1 DEF EventOK, WriteOK, ReplyOK
  <2>2. CASE handler[g].pc # "idle" /\ handler[g].order # o
    <3>0. /\ handler[g].order \in Orders /\ EventOK(g) /\ WriteOK(g) /\ ReplyOK(g)
          /\ status'[handler[g].order] = status[handler[g].order]
          /\ credited'[handler[g].order] = credited[handler[g].order]
      BY <1>4, <2>2, CreditFacts
    <3>1. EventOK(g)'
      BY <2>0, <3>0 DEF EventOK, Outcomes, Unlocked
    <3>2. WriteOK(g)'
      BY <2>0, <3>0 DEF WriteOK, Unlocked, WrittenUnderLock
    <3>3. ReplyOK(g)'
      BY <2>0, <3>0 DEF ReplyOK, IgnoresErrors, Is
    <3> QED BY <3>1, <3>2, <3>3
  <2>3. CASE handler[g].pc # "idle" /\ handler[g].order = o
    <3>0. EventOK(g) /\ WriteOK(g) /\ ReplyOK(g) /\ handler[g].at = handler[h].at
      BY <1>2, <2>3, CreditFacts DEF OneProcess
    <3>1. EventOK(g)'
      <4>1. status'[o] # "none"
        BY <1>6
      <4> QED BY <2>0, <2>3, <3>0, <4>1 DEF EventOK, Outcomes, Unlocked
    <3>2. WriteOK(g)'
      <4> SUFFICES ASSUME handler[g].pc = "write", ~Unlocked(o, handler[g].event)
                   PROVE  credited'[o] = 0 /\ (WrittenUnderLock(o)' => status'[o] = "pending")
        BY <2>0, <2>3 DEF WriteOK, Unlocked
      <4>1. InCriticalSection(g)
        BY <2>3 DEF InCriticalSection
      <4>2. ~InCriticalSection(h)
        BY <1>1, <1>10, <1>o, <2>3, <3>0, <4>1, LockInvMutex
      <4>3. Unlocked(o, e)
        BY <1>o, <4>2 DEF InCriticalSection
      <4>4. credited'[o] = credited[o] /\ kind[o].provider = "waffo"
        BY <1>6, <4>3
      <4>5. credited[o] = 0
        BY <2>3, <3>0 DEF WriteOK
      <4> QED BY <4>4, <4>5 DEF WrittenUnderLock
    <3>3. ReplyOK(g)'
      BY <1>6, <2>0, <2>3, <3>0 DEF ReplyOK, IgnoresErrors, Is
    <3> QED BY <3>1, <3>2, <3>3
  <2> QED BY <2>1, <2>2, <2>3
<1>11. \A g \in Handlers : EventOK(g)' /\ WriteOK(g)' /\ ReplyOK(g)'
  BY <1>9, <1>10
<1> QED BY <1>8, <1>11 DEF CreditInv

LEMMA WriteOrderCredits ==
    ASSUME OneProcess, CreditInv, LockInv', NEW h \in Handlers, WriteOrder(h)
    PROVE  CreditInv'
<1>0. /\ handler[h].pc = "write" /\ SaveOrder(h)
      /\ UNCHANGED <<kind, checkout, acked, unread, orderLocks>>
  BY DEF WriteOrder, locks
<1>1. WriteOK(h)
  BY DEF CreditInv
<1> QED BY <1>0, <1>1, SaveCredits DEF WriteOK

LEMMA ReadOrderCredits ==
    ASSUME OneProcess, CreditInv, LockInv', NEW h \in Handlers, ReadOrder(h)
    PROVE  CreditInv'
<1>0. handler[h].pc = "read" /\ UNCHANGED <<kind, checkout, acked, unread, orderLocks>>
  BY DEF ReadOrder, locks
<1>1. /\ handler[h].order \in Orders /\ handler[h] \in Requests
      /\ EventOK(h) /\ OrderOK(handler[h].order) /\ handler \in [Handlers -> Requests]
  BY <1>0, CreditFacts DEF CreditInv, LockInv, POTypeOK, Requests
<1>2. CASE /\ MayWrite(handler[h].order) /\ UNCHANGED <<status, credited>>
           /\ handler' = [handler EXCEPT ![h].pc = "write"]
  <2>1. /\ \A g \in Handlers : g # h => handler'[g] = handler[g]
        /\ handler'[h].pc = "write" /\ handler'[h].order = handler[h].order
        /\ handler'[h].event = handler[h].event /\ handler'[h].ok = handler[h].ok
    BY <1>1, <1>2 DEF Requests
  <2>2. status[handler[h].order] = "pending" /\ credited[handler[h].order] = 0
    BY <1>1, <1>2 DEF MayWrite, OrderOK
  <2>3. EventOK(h)' /\ WriteOK(h)'
    BY <1>0, <1>1, <1>2, <2>1, <2>2 DEF EventOK, WriteOK, Outcomes, Unlocked
  <2>4. ReplyOK(h)'
    <3>1. ReplyOK(h)
      BY DEF CreditInv
    <3> QED BY <1>0, <1>2, <2>1, <3>1 DEF ReplyOK, IgnoresErrors, Is
  <2> QED BY <1>0, <1>2, <2>1, <2>3, <2>4, OneMovesCredits
<1>3. CASE MayWrite(handler[h].order) /\ SaveOrder(h)
  <2>1. status[handler[h].order] = "pending" /\ credited[handler[h].order] = 0
    BY <1>1, <1>3 DEF MayWrite, OrderOK
  <2> QED BY <1>0, <1>3, <2>1, SaveCredits
<1>4. CASE /\ ~MayWrite(handler[h].order) /\ UNCHANGED <<status, credited>>
           /\ Leave(h, ReplyNotPending(h, handler[h].order))
  <2>1. ReplyNotPending(h, handler[h].order) \in BOOLEAN
    BY DEF ReplyNotPending
  <2>2. ASSUME ReplyNotPending(h, handler[h].order), handler[h].event = "paid",
               ~IgnoresErrors(handler[h].order)
        PROVE  credited[handler[h].order] = 1
    <3>1. status[handler[h].order] = "success" \/ kind[handler[h].order].provider = "creem"
      BY <2>2 DEF ReplyNotPending, Is
    <3>2. status[handler[h].order] \notin {"none", "pending"}
      BY <1>0, <1>1, <1>4 DEF EventOK, MayWrite
    <3> QED BY <1>1, <3>1, <3>2 DEF OrderOK
  <2> QED BY <1>0, <1>4, <2>1, <2>2, LeaveCredits
<1> QED BY <1>2, <1>3, <1>4 DEF ReadOrder

LEMMA CreditNext ==
    ASSUME OneProcess, CreditInv, [Next]_vars
    PROVE  CreditInv'
<1>1. LockInv'
  BY LockNext DEF CreditInv
<1>2. CASE UNCHANGED vars
  <2>1. UNCHANGED <<kind, status, credited, checkout, acked, unread, handler>>
    BY <1>2 DEF vars
  <2>2. \A h \in Handlers : handler'[h] = handler[h]
    BY <2>1
  <2> QED BY <1>1, <2>1, <2>2, SameOrders, SameCredits
<1>3. ASSUME NEW h \in Handlers, Runs(h) \/ Acquire(h) \/ TransactionFails(h) \/ LookupFails(h)
      PROVE  CreditInv'
  BY <1>1, <1>3, LockStepsCredit, ReadOrderCredits, WriteOrderCredits, TransactionFailsCredits,
     LookupFailsCredits DEF Runs
<1> QED BY <1>1, <1>2, <1>3, EnvironmentCredits, BeginCredits, CrashCredits DEF Next, Environment

\* In one process every request knows, before it saves the row, that the order
\* was not credited, and every row, answer and credit agree, but for the answers
\* to payments whose order could not be looked up.
THEOREM CreditInvariant == ASSUME OneProcess PROVE Spec => []CreditInv
<1>1. Init => CreditInv
  BY CreditInit
<1>2. CreditInv /\ [Next]_vars => CreditInv'
  BY CreditNext
<1> QED BY <1>1, <1>2, PTL DEF Spec

\* A payment is credited at most once, however its notifications, the
\* administrator's completion, crashes and failed transactions fall
\* (LockOrder around ReadOrder and tx.Save in one process).
THEOREM CreditsOnce == ASSUME OneProcess PROVE Spec => []CreditedOnce
<1>1. CreditInv => CreditedOnce
  BY DEF CreditInv, OrderOK, CreditedOnce
<1> QED BY <1>1, CreditInvariant, PTL

\* A row that says success was credited, a credited row says success where it
\* is written under LockOrder, and the provider was told the truth, unless it
\* is always told success or the order could not be looked up.
THEOREM StatusTellsTheCredit == ASSUME OneProcess PROVE Spec => []SuccessMeansCredited
<1>1. CreditInv => SuccessMeansCredited
  BY DEF CreditInv, OrderOK, SuccessMeansCredited
<1> QED BY <1>1, CreditInvariant, PTL

\* A final status of an order that is written under LockOrder stays: no late
\* notification, refusal or administrator overwrites it.
THEOREM FinalStatusStays == ASSUME OneProcess PROVE Spec => FinalStatusIsFinal
<1>1. ASSUME CreditInv, [Next]_vars, NEW o \in Orders, WrittenUnderLock(o),
             status[o] \in FinalStatuses
      PROVE  status'[o] = status[o]
  <2>0. status[o] \notin {"none", "pending"} /\ status \in [Orders -> Statuses]
    BY <1>1 DEF FinalStatuses, CreditInv, LockInv, POTypeOK
  <2>1. ASSUME NEW h \in Handlers, handler[h].pc \in {"read", "write"}, SaveOrder(h),
               handler[h].pc = "read" => MayWrite(handler[h].order)
        PROVE  status'[o] = status[o]
    <3>1. handler[h].order \in Orders /\ WriteOK(h)
      BY <1>1, <2>1, CreditFacts
    <3>2. handler[h].order # o
      BY <1>1, <2>0, <2>1, <3>1 DEF MayWrite, WriteOK, Unlocked, WrittenUnderLock
    <3> QED BY <2>0, <2>1, <3>1, <3>2 DEF SaveOrder
  <2>2. ASSUME NEW h \in Handlers, Runs(h) \/ Acquire(h) \/ TransactionFails(h) \/ LookupFails(h)
        PROVE  status'[o] = status[o]
    BY <2>1, <2>2 DEF Runs, Acquire, TransactionFails, LookupFails, LockOrder, ReadOrder, WriteOrder, Answer,
       UnlockOrder, Release, orders
  <2>3. ASSUME NEW p \in Orders, RequestPay(p) \/ CheckoutCreated(p) \/ CheckoutRefused(p) \/ CheckoutEnds(p)
        PROVE  status'[o] = status[o]
    <3>1. CASE p # o
      BY <2>0, <2>3, <3>1 DEF RequestPay, CheckoutCreated, CheckoutRefused, CheckoutEnds
    <3>2. CASE p = o
      <4>1. StatusAfterRefusal(o) = status[o]
        BY <1>1, <2>0 DEF StatusAfterRefusal, WrittenUnderLock
      <4> QED BY <2>0, <2>3, <3>2, <4>1
              DEF RequestPay, CheckoutCreated, CheckoutRefused, CheckoutEnds
    <3> QED BY <3>1, <3>2
  <2>4. ASSUME NEW h \in Handlers, NEW p \in Orders, NEW i \in Instances,
               Notify(h, p, i) \/ AdminCompleteTopUp(h, p, i)
        PROVE  status'[o] = status[o]
    BY <2>4 DEF Notify, AdminCompleteTopUp, Begin, orders
  <2>5. ASSUME NEW i \in Instances, Crash(i) PROVE status'[o] = status[o]
    BY <2>5 DEF Crash, orders
  <2>6. CASE UNCHANGED vars
    BY <2>6 DEF vars
  <2> QED BY <1>1, <2>2, <2>3, <2>4, <2>5, <2>6 DEF Next, Environment
<1>2. CreditInv /\ [Next]_vars =>
        [\A o \in Orders : WrittenUnderLock(o) /\ status[o] \in FinalStatuses
                           => status'[o] = status[o]]_vars
  BY <1>1
<1> QED BY <1>2, CreditInvariant, PTL DEF Spec, FinalStatusIsFinal
=============================================================================
