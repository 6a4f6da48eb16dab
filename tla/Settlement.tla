----------------------------- MODULE Settlement -----------------------------
(***************************************************************************)
(* How an inference request is unwound: what leaves the module escrow      *)
(* account, who receives it, and the status the request ends in.           *)
(*                                                                         *)
(* chain/internal/state/resolution.go (slash, dismiss, void) and the       *)
(* refund and finalize loops of chain/internal/state/block.go.  Each       *)
(* operator returns a settlement record                                    *)
(*   debit  : what the handler debits from the escrow account in total,    *)
(*   credit : what it credits to each address,                             *)
(*   status : the status it writes.                                        *)
(* Debits and credits are written down separately, from the code's debit   *)
(* and credit calls: that they agree is a property, not a definition.      *)
(*                                                                         *)
(* Amounts are in one denomination: balances are not keyed by denomination *)
(* in the code either (state.go:210-237).                                  *)
(***************************************************************************)
EXTENDS Integers, FiniteSets, Sequences

CONSTANTS
  Users,                (* Addresses that hold a key and sign.             *)
  Escrow,               (* moduleEscrowAddr.                               *)
  Treasury,             (* ModuleTreasuryAddr.                             *)
  Inputs,               (* Input hashes.                                   *)
  Outputs,              (* Output hashes.                                  *)
  NoOutput,             (* Result == nil.                                  *)
  ProviderBondAmount,   (* Params, written once at genesis.                *)
  ChallengerBondAmount,
  VoucherBondAmount,
  VoucherBondScaleBP    (* Basis points of the provider bond; 0 disables.  *)

ASSUME AddressesDistinct ==
  /\ Escrow \notin Users
  /\ Treasury \notin Users
  /\ Escrow # Treasury

ASSUME UsersFinite == IsFiniteSet(Users)

ASSUME BondsAreNat ==
  /\ ProviderBondAmount \in Nat
  /\ ChallengerBondAmount \in Nat
  /\ VoucherBondAmount \in Nat
  /\ VoucherBondScaleBP \in Nat

ASSUME NoOutputIsNone == NoOutput \notin Outputs

Addresses == Users \cup {Escrow, Treasury}

OpenStatuses     == {"PENDING", "SUBMITTED", "CHALLENGED"}
TerminalStatuses == {"FINALIZED", "SLASHED", "REFUNDED"}

Challenge == [challenger : Users, postedAt : Nat, outputHash : Outputs, bond : Nat]

(* One row per voucher.  A voucher's bond is not stored here: parameters   *)
(* are written once, so every voucher of a request locks VoucherBond.      *)
Voucher == [voucher : Users, supportsProvider : BOOLEAN]

Request == [ service      : Nat,
             requester    : Users,
             inputHash    : Inputs,
             escrow       : Nat,          \* price locked by the requester
             deadline     : Nat,
             status       : OpenStatuses \cup TerminalStatuses,
             submittedAt  : Nat,
             outputHash   : Outputs \cup {NoOutput},
             providerBond : Nat,          \* 0 stands for nil
             challenges   : Seq(Challenge),
             vouchers     : SUBSET Voucher ]

IsOpen(r) == r.status \in OpenStatuses

(* The bond applyVouch locks: scaled from the provider's, else fixed. *)
VoucherBond(r) ==
  IF VoucherBondScaleBP > 0 /\ r.providerBond > 0
    THEN (r.providerBond * VoucherBondScaleBP) \div 10000
    ELSE VoucherBondAmount

(* Mutant: the challenger's side is forgotten. *)
NoDoubters(r) == {}

Backers(r)  == {v \in r.vouchers : v.supportsProvider}
Doubters(r) == {v \in r.vouchers : ~v.supportsProvider}

(* The rows of a set of vouchers that belong to address a. *)
RowsOf(V, a) == Cardinality({v \in V : v.voucher = a})

Due(cond, amount) == IF cond THEN amount ELSE 0

-----------------------------------------------------------------------------

(* Deadline passed without a result: the price goes back. *)
Refund(r) ==
  [ debit  |-> r.escrow,
    credit |-> [a \in Addresses |-> Due(a = r.requester, r.escrow)],
    status |-> "REFUNDED" ]

(* Mutant: the provider bond stays in escrow, as it once did when the      *)
(* challenge window was 0 (tx.go:405-409).                                 *)
FinalizeWithoutBond(r, owner) ==
  [ debit  |-> r.escrow,
    credit |-> [a \in Addresses |-> Due(a = owner, r.escrow)],
    status |-> "FINALIZED" ]

(* Challenge window closed without a dispute: price and bond to the owner. *)
Finalize(r, owner) ==
  [ debit  |-> r.escrow + r.providerBond,
    credit |-> [a \in Addresses |-> Due(a = owner, r.escrow + r.providerBond)],
    status |-> "FINALIZED" ]

(* Dispute lost by the provider. *)
Slash(r) ==
  LET c  == r.challenges[1]
      vb == VoucherBond(r)
  IN [ debit  |-> r.escrow + r.providerBond + c.bond + vb * Cardinality(r.vouchers),
       credit |-> [a \in Addresses |->
                      Due(a = r.requester, r.escrow)
                    + Due(a = c.challenger, r.providerBond + c.bond)
                    + Due(a = Treasury, vb * Cardinality(Backers(r)))
                    + vb * RowsOf(Doubters(r), a)],
       status |-> "SLASHED" ]

(* Mutant: what the division leaves over is lost. *)
NoRemainder(pool, recipients) == 0

(* The part of a reward pool each recipient gets and what the integer      *)
(* division leaves over, which goes to the provider.                       *)
Share(pool, recipients)     == pool \div recipients
Remainder(pool, recipients) == pool - Share(pool, recipients) * recipients

(* Dispute won by the provider: the challenger's bond and the bonds of     *)
(* the vouchers on its side are shared by the provider and its vouchers.   *)
Dismiss(r, owner) ==
  LET c          == r.challenges[1]
      vb         == VoucherBond(r)
      pool       == c.bond + vb * Cardinality(Doubters(r))
      recipients == 1 + Cardinality(Backers(r))
      share      == Share(pool, recipients)
  IN [ debit  |-> r.escrow + r.providerBond + vb * Cardinality(Backers(r)) + pool,
       credit |-> [a \in Addresses |->
                      Due(a = owner, r.escrow + r.providerBond
                                       + share + Remainder(pool, recipients))
                    + (vb + share) * RowsOf(Backers(r), a)],
       status |-> "FINALIZED" ]

(* Domain retired under an open request: every stake goes back, according  *)
(* to the status the request had reached.                                  *)
Void(r, owner) ==
  LET vb     == VoucherBond(r)
      bonded == r.status \in {"SUBMITTED", "CHALLENGED"}
      posted == r.status = "CHALLENGED" /\ r.challenges # << >>
  IN [ debit  |-> r.escrow + Due(bonded, r.providerBond)
                    + (IF posted THEN r.challenges[1].bond ELSE 0)
                    + vb * Cardinality(r.vouchers),
       credit |-> [a \in Addresses |->
                      Due(a = r.requester, r.escrow)
                    + Due(bonded /\ a = owner, r.providerBond)
                    + (IF posted THEN Due(a = r.challenges[1].challenger,
                                          r.challenges[1].bond) ELSE 0)
                    + vb * RowsOf(r.vouchers, a)],
       status |-> "REFUNDED" ]

=============================================================================
