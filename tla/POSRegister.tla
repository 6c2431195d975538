---------------------------- MODULE POSRegister -----------------------------
(***************************************************************************)
(* Registers, cashier sessions and drawer cash (src/pos/service.ts).       *)
(*                                                                         *)
(* An actor is a cashier signed in with a personal account, or the shared  *)
(* account of a store ("Store POS Terminal"), which names a cashier when   *)
(* it opens a register.  What sales and refunds put into a drawer is known *)
(* to the module that records them: the handlers that read it take it as   *)
(* the parameter `receipts`.                                               *)
(***************************************************************************)
EXTENDS POSCommon, Integers, FiniteSetsExt

CONSTANTS
  Cashiers,      \* personal accounts, each with its employee record
  StoreAccounts, \* shared accounts of stores
  HomeStore,     \* store of each cashier and shared account
  Registers,     \* ids of POSRegister rows
  Sessions,      \* ids of POSSession rows
  CashKeys,      \* idempotency keys of cash movements
  MaxCash        \* bound on the amount of one cash input

Actors == Cashiers \cup StoreAccounts

ASSUME RegisterAssumption ==
  /\ Cashiers \cap StoreAccounts = {}
  /\ HomeStore \in [Actors -> Stores]
  /\ MaxCash \in Nat

\* POSRegister.name: the default register, one per shared account, or one an
\* administrator created under a name of its own.
RegisterNames == {"Main Register", "Own Name"} \cup StoreAccounts
RegisterRow == [store : Stores, name : RegisterNames]

\* A closed session keeps the expected cash computed when it was closed.
SessionRow == [register : Registers, user : Actors, employee : Cashiers,
               opening : Nat, closed : BOOLEAN, expected : Int]

CashRow == [session : Sessions, amount : Int]   \* negative: direction OUT

ASSUME NoRowAssumption == NoRow \notin RegisterRow \cup SessionRow \cup CashRow

VARIABLES
  registers,     \* POSRegister rows; none is ever deactivated
  sessions,      \* POSSession rows
  cashMoves      \* POSCashMovement rows by idempotency key

registerVars == <<registers, sessions, cashMoves>>

RegisterTypeOK ==
  /\ registers \in [Registers -> RegisterRow \cup {NoRow}]
  /\ sessions \in [Sessions -> SessionRow \cup {NoRow}]
  /\ cashMoves \in [CashKeys -> CashRow \cup {NoRow}]

RegisterInit ==
  /\ registers = [r \in Registers |-> NoRow]
  /\ sessions = [x \in Sessions |-> NoRow]
  /\ cashMoves = [k \in CashKeys |-> NoRow]

-----------------------------------------------------------------------------
IsOpen(x) == sessions[x] # NoRow /\ ~sessions[x].closed

RegistersOf(store) == {r \in Registers : registers[r] # NoRow /\ registers[r].store = store}
SessionStore(x) == registers[sessions[x].register].store
OccupiedByTerminal(r) ==   \* mutation
  \E x \in Sessions : IsOpen(x) /\ sessions[x].register = r /\ sessions[x].user \in StoreAccounts

Occupied(r) == \E x \in Sessions : IsOpen(x) /\ sessions[x].register = r
FreeRegisters(store) == {r \in RegistersOf(store) : ~Occupied(r)}

\* The session is the actor's: opened by the account, or for its employee.
Owns(a, x) == sessions[x].user = a \/ (a \in Cashiers /\ sessions[x].employee = a)

\* The open session an actor would resume: a shared account only one it opened
\* for the same cashier.
Resumable(a, cashier, x) ==
  /\ IsOpen(x)
  /\ IF a \in StoreAccounts THEN sessions[x].user = a /\ sessions[x].employee = cashier
                            ELSE Owns(a, x)

\* openingCashier: cashiers open for themselves, shared accounts for an active
\* cashier of the store.
OpeningCashier(a, store, cashier) ==
  IF a \in StoreAccounts THEN cashier \in Cashiers /\ HomeStore[cashier] = store
                         ELSE cashier = a /\ HomeStore[a] = store

\* The row of a session just opened: the drawer is the cashier's, whichever
\* account opened it.
NewSessionRow(r, a, cashier, opening) ==
  [register |-> r, user |-> a, employee |-> cashier, opening |-> opening, closed |-> FALSE, expected |-> 0]

\* The session row all three opening handlers create; the partial unique index
\* POSSession_one_open_register and the occupied checks are the guard.
CreateSession(x, r, a, cashier, opening) ==
  /\ sessions[x] = NoRow
  /\ ~Occupied(r)
  /\ sessions' = [sessions EXCEPT ![x] = NewSessionRow(r, a, cashier, opening)]

\* POSRegister has a unique (storeId, name).
NameFree(store, name) ==
  name # "Own Name" => \A q \in RegistersOf(store) : registers[q].name # name

CreateRegister(r, store, name) ==
  /\ registers[r] = NoRow
  /\ NameFree(store, name)
  /\ registers' = [registers EXCEPT ![r] = [store |-> store, name |-> name]]

\* POST /registers
AddRegister(r, store, name) ==
  /\ CreateRegister(r, store, name)
  /\ UNCHANGED <<sessions, cashMoves>>

\* openRegister: resuming one's own session on the register changes nothing.
OpenRegister(a, r, cashier, x, opening) ==
  /\ registers[r] # NoRow
  /\ HomeStore[a] = registers[r].store
  /\ OpeningCashier(a, registers[r].store, cashier)
  /\ CreateSession(x, r, a, cashier, opening)
  /\ UNCHANGED <<registers, cashMoves>>

\* The register a new session of `a` gets when none was asked for: any free
\* one, else one created for the store or for its shared account.  A store
\* whose registers are all taken refuses everybody else.
AllocateRegister(a, store, r) ==
  IF FreeRegisters(store) # {}
  THEN r \in FreeRegisters(store) /\ UNCHANGED registers
  ELSE IF RegistersOf(store) = {} THEN CreateRegister(r, store, "Main Register")
  ELSE a \in StoreAccounts /\ CreateRegister(r, store, a)

\* openRegisterSession, with or without a preferred register.
OpenRegisterSession(a, store, preferred, cashier, r, x, opening) ==
  /\ HomeStore[a] = store
  /\ OpeningCashier(a, store, cashier)
  /\ ~\E y \in Sessions : /\ Resumable(a, cashier, y) /\ SessionStore(y) = store
                          /\ preferred # NoRow => sessions[y].register = preferred
  /\ IF preferred # NoRow
     THEN r = preferred /\ r \in RegistersOf(store) /\ UNCHANGED registers
     ELSE AllocateRegister(a, store, r)
  /\ CreateSession(x, r, a, cashier, opening)
  /\ UNCHANGED cashMoves

\* ensureOrOpenSession as checkout calls it.  With a session named, it must be
\* an open one of the store that the actor may bill on; without one, a cashier
\* bills on an open session of his in the store, or on a new one on a free
\* register, opened with no cash.
NamedSession(a, store, x) ==
  /\ IsOpen(x) /\ SessionStore(x) = store
  /\ Owns(a, x) \/ a \in StoreAccounts
  /\ UNCHANGED registerVars

OwnSession(a, store, x) ==
  /\ a \in Cashiers
  /\ IsOpen(x) /\ Owns(a, x) /\ SessionStore(x) = store
  /\ UNCHANGED registerVars

NewSession(a, store, x) ==
  /\ a \in Cashiers /\ HomeStore[a] = store
  /\ ~\E y \in Sessions : IsOpen(y) /\ Owns(a, y) /\ SessionStore(y) = store
  /\ \E r \in Registers : AllocateRegister(a, store, r) /\ CreateSession(x, r, a, a, 0)
  /\ UNCHANGED cashMoves

EnsureOrOpenSession(a, store, x) ==
  NamedSession(a, store, x) \/ OwnSession(a, store, x) \/ NewSession(a, store, x)

\* cashMovementNet, and the drawer it is part of: opening cash, what sales and
\* refunds brought, and the movements.
CashMovementNet(x) ==
  SumFunction([k \in {key \in CashKeys : cashMoves[key] # NoRow /\ cashMoves[key].session = x} |->
    cashMoves[k].amount])

Drawer(x, receipts) == sessions[x].opening + receipts + CashMovementNet(x)

\* Money out needs the drawer to hold it.
CashCovered(x, amount, receipts) == amount < 0 => Drawer(x, receipts) >= -amount

\* cashMovement: a known key is answered from its row.
CashMovement(k, x, amount, receipts) ==
  /\ cashMoves[k] = NoRow
  /\ IsOpen(x)
  /\ amount # 0
  /\ CashCovered(x, amount, receipts)
  /\ cashMoves' = [cashMoves EXCEPT ![k] = [session |-> x, amount |-> amount]]
  /\ UNCHANGED <<registers, sessions>>

\* closeSession: whoever may close it, what the drawer should hold is frozen;
\* closing a closed session returns it unchanged.
CloseSession(x, receipts) ==
  /\ IsOpen(x)
  /\ sessions' = [sessions EXCEPT ![x].closed = TRUE, ![x].expected = Drawer(x, receipts)]
  /\ UNCHANGED <<registers, cashMoves>>

-----------------------------------------------------------------------------
(* The component on its own: a till that sells nothing.                    *)

RegisterNext ==
  \/ \E r \in Registers, store \in Stores, name \in RegisterNames : AddRegister(r, store, name)
  \/ \E a \in Actors, r \in Registers, cashier \in Cashiers, x \in Sessions, n \in 0..MaxCash :
       OpenRegister(a, r, cashier, x, n)
  \/ \E a \in Actors, store \in Stores, preferred \in Registers \cup {NoRow}, cashier \in Cashiers,
        r \in Registers, x \in Sessions, n \in 0..MaxCash :
       OpenRegisterSession(a, store, preferred, cashier, r, x, n)
  \/ \E a \in Cashiers, store \in Stores, x \in Sessions : NewSession(a, store, x)
  \/ \E k \in CashKeys, x \in Sessions, n \in -MaxCash..MaxCash : CashMovement(k, x, n, 0)
  \/ \E x \in Sessions : CloseSession(x, 0)

RegisterSpec == RegisterInit /\ [][RegisterNext]_registerVars
-----------------------------------------------------------------------------
(* Properties.                                                             *)

\* Whichever of the three opening handlers ran, a register has at most one open
\* session (POSSession_one_open_register backs this up in the database).
OneOpenSessionPerRegister ==
  \A x \in Sessions : \A y \in Sessions \ {x} :
    IsOpen(x) /\ IsOpen(y) => sessions[x].register # sessions[y].register

\* Registers created on demand by concurrent openings are not duplicated: one
\* default register per store and one terminal per shared account.
NoDuplicateRegister ==
  \A r \in Registers : \A q \in Registers \ {r} :
    registers[r] # NoRow /\ registers[q] # NoRow =>
      \/ registers[r].store # registers[q].store
      \/ registers[r].name # registers[q].name \/ registers[r].name = "Own Name"
=============================================================================
