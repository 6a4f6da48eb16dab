----------------------------- MODULE EscrowPots -----------------------------
(***************************************************************************)
(* What the marketplace promises about money, without saying how: every    *)
(* deal (a request, or a registered service) has a pot of its own.  Its    *)
(* parties put stakes in, and when the deal is settled the pot is emptied, *)
(* once, to those parties or to the treasury.  The chain instead pools all *)
(* stakes in one module account and settles many deals in one block; that  *)
(* it still implements this module says that no deal ever pays with the    *)
(* stake of another.                                                       *)
(***************************************************************************)
EXTENDS Integers, Functions

CONSTANTS
  Accounts,   (* Everybody who can own coins.        *)
  Bank,       (* The account forfeits are swept to.  *)
  Pots        (* Names of the pots.                  *)

VARIABLES
  wallet,     (* Coins an account can dispose of.                *)
  pot,        (* Coins staked in a deal.                         *)
  phase,      (* "unused", then "open", then "closed" for good.  *)
  parties     (* Who a pot may be paid to.                       *)

potVars == <<wallet, pot, phase, parties>>

PotsTypeOK ==
  /\ wallet \in [Accounts -> Nat]
  /\ pot \in [Pots -> Nat]
  /\ phase \in [Pots -> {"unused", "open", "closed"}]
  /\ parties \in [Pots -> SUBSET Accounts]

PotsInit ==
  /\ wallet \in [Accounts -> Nat]
  /\ pot = [p \in Pots |-> 0]
  /\ phase = [p \in Pots |-> "unused"]
  /\ parties = [p \in Pots |-> {}]

(* Account a moves an amount of its own into pot p. *)
PutIn(a, p) ==
  LET amount == pot'[p] - pot[p]
  IN /\ amount >= 0
     /\ wallet[a] >= amount
     /\ wallet' = [wallet EXCEPT ![a] = @ - amount]
     /\ pot' = [pot EXCEPT ![p] = @ + amount]

(* Account a opens a deal with b, its counterparty. *)
Open(a, b, p) ==
  /\ phase[p] = "unused"
  /\ PutIn(a, p)
  /\ phase' = [phase EXCEPT ![p] = "open"]
  /\ parties' = [parties EXCEPT ![p] = {a, b}]

(* Account a joins an open deal, or raises its stake. *)
Stake(a, p) ==
  /\ phase[p] = "open"
  /\ PutIn(a, p)
  /\ parties' = [parties EXCEPT ![p] = @ \cup {a}]
  /\ UNCHANGED phase

(* The pots P are paid out in full, to their parties and to no one else. *)
Settle(P) ==
  /\ P # {} /\ \A p \in P : phase[p] = "open"
  /\ phase' = [p \in Pots |-> IF p \in P THEN "closed" ELSE phase[p]]
  /\ pot' = [p \in Pots |-> IF p \in P THEN 0 ELSE pot[p]]
  /\ \A a \in Accounts :
       /\ wallet'[a] >= wallet[a]
       /\ wallet'[a] > wallet[a] => a = Bank \/ \E p \in P : a \in parties[p]
  /\ SumFunction(wallet') - SumFunction(wallet) = SumFunctionOnSet(pot, P)
  /\ UNCHANGED parties

(* Account a gives coins to b. *)
Give(a, b) ==
  LET amount == wallet[a] - wallet'[a]
  IN /\ a # b /\ amount > 0
     /\ wallet' = [wallet EXCEPT ![a] = @ - amount, ![b] = @ + amount]
     /\ UNCHANGED <<pot, phase, parties>>

PotsNext ==
  \/ \E a \in Accounts, b \in Accounts, p \in Pots : Open(a, b, p)
  \/ \E a \in Accounts, p \in Pots : Stake(a, p)
  \/ \E P \in SUBSET Pots : Settle(P)
  \/ \E a \in Accounts, b \in Accounts : Give(a, b)

PotsSpec == PotsInit /\ [][PotsNext]_potVars

=============================================================================
