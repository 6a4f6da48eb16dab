---------------------------- MODULE EscrowProofs -----------------------------
(***************************************************************************)
(* Where the money is, for every value of the constants: no coin is        *)
(* created or lost, the escrow account covers the stakes it holds, and it  *)
(* behaves as one pot for each deal (EscrowPots).                          *)
(***************************************************************************)
EXTENDS MarketplaceProofs

-----------------------------------------------------------------------------
(***************************************************************************)
(* Coins are neither created nor destroyed, for any number of accounts,    *)
(* services, requests and vouchers and any parameters.                     *)
(*                                                                         *)
(* The argument: what a settlement credits, summed over the addresses, is  *)
(* what it debits from escrow (the shares of a reward pool and the rest    *)
(* that goes to the provider make up the pool).  A block or a cascade is a *)
(* table of settlements: summed row by row it is the total debited, and    *)
(* column by column what each address gets.                                *)
(***************************************************************************)

Total == SumFunction(balances)

(* What a settlement pays out is what it takes out. *)
Balanced(out) == SumFunction(out.credit) = out.debit

LEMMA AddressesFinite == IsFiniteSet(Addresses)
<1>1. IsFiniteSet(Users \cup {Escrow})
  BY UsersFinite, FS_AddElement
<1>2. IsFiniteSet((Users \cup {Escrow}) \cup {Treasury})
  BY <1>1, FS_AddElement
<1>3. Addresses = (Users \cup {Escrow}) \cup {Treasury}
  BY DEF Addresses
<1> QED BY <1>2, <1>3

LEMMA DueSum ==
  ASSUME NEW b \in Addresses, NEW n \in Nat, NEW h,
         DOMAIN h = Addresses, \A a \in Addresses : h[a] = Due(a = b, n)
  PROVE  SumFunction(h) = n
<1>1. \A a \in Addresses : h[a] = IF a = b THEN n ELSE 0
  BY DEF Due
<1> QED BY <1>1, AddressesFinite, SumFunctionOne

(* A stake of k for each voucher of V, paid to the account it is from. *)
LEMMA RowsSum ==
  ASSUME NEW V \in SUBSET Voucher, NEW k \in Nat, NEW h,
         DOMAIN h = Addresses, \A a \in Addresses : h[a] = k * RowsOf(V, a)
  PROVE  SumFunction(h) = k * Cardinality(V)
<1> DEFINE key == [v \in V |-> v.voucher]
<1>1. key \in [V -> Addresses]
  BY DEF Voucher, Addresses
<1>2. \A a \in Addresses : {v \in V : key[v] = a} = {v \in V : v.voucher = a}
  OBVIOUS
<1>3. \A a \in Addresses : h[a] = k * Cardinality({v \in V : key[v] = a})
  BY <1>2 DEF RowsOf
<1>4. IsFiniteSet(V)
  BY VouchersFinite
<1> HIDE DEF key
<1> QED BY <1>1, <1>3, <1>4, AddressesFinite, SumOfClasses

(* Four credits to each address. *)
LEMMA FourCredits ==
  ASSUME NEW f \in [Addresses -> Nat], NEW g \in [Addresses -> Nat],
         NEW h \in [Addresses -> Nat], NEW k \in [Addresses -> Nat]
  PROVE  SumFunction([a \in Addresses |-> f[a] + g[a] + h[a] + k[a]])
           = SumFunction(f) + SumFunction(g) + SumFunction(h) + SumFunction(k)
<1> DEFINE all == [a \in Addresses |-> f[a] + g[a] + h[a] + k[a]]
           fg  == [a \in Addresses |-> f[a] + g[a]]
           fgh == [a \in Addresses |-> fg[a] + h[a]]
<1>1. /\ fg \in [Addresses -> Int] /\ fgh \in [Addresses -> Int]
      /\ f \in [Addresses -> Int] /\ g \in [Addresses -> Int]
      /\ h \in [Addresses -> Int] /\ k \in [Addresses -> Int]
      /\ all \in [Addresses -> Int]
  OBVIOUS
<1>2. /\ \A a \in Addresses : fg[a] = f[a] + g[a]
      /\ \A a \in Addresses : fgh[a] = fg[a] + h[a]
      /\ \A a \in Addresses : all[a] = fgh[a] + k[a]
  OBVIOUS
<1> HIDE DEF fg, fgh, all
<1>3. \A u, v, w \in [Addresses -> Int] :
         (\A a \in Addresses : w[a] = u[a] + v[a]) => SumFunction(w) = SumFunction(u) + SumFunction(v)
  BY AddressesFinite, SumFunctionAdd
<1>4. SumFunction(fg) = SumFunction(f) + SumFunction(g)
  BY <1>1, <1>2, <1>3
<1>5. SumFunction(fgh) = SumFunction(fg) + SumFunction(h)
  BY <1>1, <1>2, <1>3
<1>6. SumFunction(all) = SumFunction(fgh) + SumFunction(k)
  BY <1>1, <1>2, <1>3
<1>7. SumFunction(all) = SumFunction(f) + SumFunction(g) + SumFunction(h) + SumFunction(k)
  BY <1>1, <1>4, <1>5, <1>6
<1> QED BY <1>7 DEF all

-----------------------------------------------------------------------------
(* One settlement. *)

LEMMA RefundBalanced ==
  ASSUME NEW r \in Request
  PROVE  Balanced(Refund(r))
<1>1. r.requester \in Addresses /\ r.escrow \in Nat
  BY DEF Request, Addresses
<1>2. /\ Refund(r).credit = [a \in Addresses |-> Due(a = r.requester, r.escrow)]
      /\ Refund(r).debit = r.escrow
  BY DEF Refund
<1> QED BY <1>1, <1>2, DueSum DEF Balanced

LEMMA FinalizeBalanced ==
  ASSUME NEW r \in Request, NEW owner \in Users
  PROVE  Balanced(Finalize(r, owner))
<1>1. owner \in Addresses /\ r.escrow + r.providerBond \in Nat
  BY DEF Request, Addresses
<1>2. /\ Finalize(r, owner).credit
           = [a \in Addresses |-> Due(a = owner, r.escrow + r.providerBond)]
      /\ Finalize(r, owner).debit = r.escrow + r.providerBond
  BY DEF Finalize
<1> QED BY <1>1, <1>2, DueSum DEF Balanced

LEMMA SlashBalanced ==
  ASSUME NEW r \in Request, r.challenges # << >>
  PROVE  Balanced(Slash(r))
<1> DEFINE c  == r.challenges[1]
           vb == VoucherBond(r)
           f == [a \in Addresses |-> Due(a = r.requester, r.escrow)]
           g == [a \in Addresses |-> Due(a = c.challenger, r.providerBond + c.bond)]
           h == [a \in Addresses |-> Due(a = Treasury, vb * Cardinality(Backers(r)))]
           k == [a \in Addresses |-> vb * RowsOf(Doubters(r), a)]
           all == [a \in Addresses |-> f[a] + g[a] + h[a] + k[a]]
<1>1. /\ r.escrow \in Nat /\ r.providerBond \in Nat /\ c.bond \in Nat /\ vb \in Nat
      /\ r.vouchers \in SUBSET Voucher /\ c \in Challenge
  BY RequestParts
<1>2. /\ r.requester \in Addresses /\ c.challenger \in Addresses /\ Treasury \in Addresses
      /\ Doubters(r) \in SUBSET Voucher
  BY <1>1 DEF Request, Challenge, Addresses, Doubters
<1>3. /\ Cardinality(r.vouchers) \in Nat
      /\ Cardinality(Backers(r)) \in Nat
      /\ Cardinality(Doubters(r)) \in Nat
      /\ Cardinality(r.vouchers) = Cardinality(Backers(r)) + Cardinality(Doubters(r))
  BY <1>1, SidesPartition
<1>4. /\ vb * Cardinality(r.vouchers)
           = vb * Cardinality(Backers(r)) + vb * Cardinality(Doubters(r))
      /\ vb * Cardinality(Backers(r)) \in Nat
      /\ vb * Cardinality(Doubters(r)) \in Nat
  BY <1>1, <1>3, NatTimes, NatTimesSum
<1>5. Slash(r).credit = all
  BY DEF Slash
<1>6. Slash(r).debit = r.escrow + r.providerBond + c.bond + vb * Cardinality(r.vouchers)
  BY DEF Slash
<1>7. r.providerBond + c.bond \in Nat
  BY <1>1
<1> HIDE DEF vb, c
<1>8. /\ f \in [Addresses -> Nat] /\ g \in [Addresses -> Nat] /\ h \in [Addresses -> Nat]
      /\ k \in [Addresses -> Nat]
  <2>1. \A a \in Addresses : vb * RowsOf(Doubters(r), a) \in Nat
    BY <1>1, <1>2, RowsOfType, NatTimes
  <2> QED BY <1>1, <1>4, <1>7, <2>1, DueType
<1>9. /\ SumFunction(f) = r.escrow
      /\ SumFunction(g) = r.providerBond + c.bond
      /\ SumFunction(h) = vb * Cardinality(Backers(r))
      /\ SumFunction(k) = vb * Cardinality(Doubters(r))
  <2>1. SumFunction(f) = r.escrow
    BY <1>1, <1>2, DueSum
  <2>2. SumFunction(g) = r.providerBond + c.bond
    BY <1>2, <1>7, DueSum
  <2>3. SumFunction(h) = vb * Cardinality(Backers(r))
    BY <1>2, <1>4, DueSum
  <2>4. SumFunction(k) = vb * Cardinality(Doubters(r))
    BY <1>1, <1>2, RowsSum
  <2> QED BY <2>1, <2>2, <2>3, <2>4
<1>10. SumFunction(all) = SumFunction(f) + SumFunction(g) + SumFunction(h) + SumFunction(k)
  <2>1. \A f1, f2, f3, f4 \in [Addresses -> Nat] :
          SumFunction([a \in Addresses |-> f1[a] + f2[a] + f3[a] + f4[a]])
            = SumFunction(f1) + SumFunction(f2) + SumFunction(f3) + SumFunction(f4)
    BY FourCredits
  <2> HIDE DEF f, g, h, k
  <2>2. SumFunction([a \in Addresses |-> f[a] + g[a] + h[a] + k[a]])
          = SumFunction(f) + SumFunction(g) + SumFunction(h) + SumFunction(k)
    BY ONLY <1>8, <2>1
  <2> QED BY <2>2
<1> HIDE DEF f, g, h, k, all
<1>11. SumFunction(all) = Slash(r).debit
  BY <1>1, <1>4, <1>6, <1>9, <1>10
<1> QED BY <1>5, <1>11 DEF Balanced

LEMMA DismissBalanced ==
  ASSUME NEW r \in Request, r.challenges # << >>, NEW owner \in Users
  PROVE  Balanced(Dismiss(r, owner))
<1> DEFINE c  == r.challenges[1]
           vb == VoucherBond(r)
           pool == c.bond + vb * Cardinality(Doubters(r))
           recipients == 1 + Cardinality(Backers(r))
           share == Share(pool, recipients)
           rest == Remainder(pool, recipients)
           main == r.escrow + r.providerBond + share + rest
           f == [a \in Addresses |-> Due(a = owner, main)]
           g == [a \in Addresses |-> (vb + share) * RowsOf(Backers(r), a)]
           h == [a \in Addresses |-> f[a] + g[a]]
           backers == Cardinality(Backers(r))
<1>1. /\ r.escrow \in Nat /\ r.providerBond \in Nat /\ c.bond \in Nat /\ vb \in Nat
      /\ r.vouchers \in SUBSET Voucher
  BY RequestParts
<1>2. owner \in Addresses /\ Backers(r) \in SUBSET Voucher
  BY <1>1 DEF Addresses, Backers
<1>3. backers \in Nat /\ recipients \in Nat \ {0} /\ Cardinality(Doubters(r)) \in Nat
  BY <1>1, SidesPartition
<1>4. pool \in Nat
  BY <1>1, <1>3, NatTimes
<1>5. /\ Dismiss(r, owner).credit = h
      /\ Dismiss(r, owner).debit = r.escrow + r.providerBond + vb * backers + pool
  BY DEF Dismiss
<1> HIDE DEF pool, c
<1>6. share \in Nat /\ rest \in Nat /\ share * recipients + rest = pool
  BY <1>3, <1>4, ShareType
<1>7. share * recipients = share + share * backers
  BY <1>3, <1>6, NatTimesSum
<1>8. (vb + share) * backers = vb * backers + share * backers
  BY <1>1, <1>3, <1>6
<1>9. share * backers \in Nat /\ vb * backers \in Nat /\ main \in Nat /\ vb + share \in Nat
  <2>1. share * backers \in Nat /\ vb * backers \in Nat
    BY <1>1, <1>3, <1>6, NatTimes
  <2> HIDE DEF share, rest, vb, backers, recipients
  <2>2. main \in Nat /\ vb + share \in Nat
    BY <1>1, <1>6
  <2> QED BY <2>1, <2>2
<1> HIDE DEF vb, recipients, share, rest
<1>10. f \in [Addresses -> Nat] /\ g \in [Addresses -> Nat]
  <2>1. \A a \in Addresses : (vb + share) * RowsOf(Backers(r), a) \in Nat
    BY <1>2, <1>9, RowsOfType, NatTimes
  <2> QED BY <1>9, <2>1, DueType
<1>11. SumFunction(f) = main
  BY <1>2, <1>9, DueSum
<1>12. SumFunction(g) = (vb + share) * backers
  BY <1>2, <1>9, RowsSum
<1>13. SumFunction(h) = SumFunction(f) + SumFunction(g)
  <2>1. /\ f \in [Addresses -> Int] /\ g \in [Addresses -> Int] /\ h \in [Addresses -> Int]
        /\ \A a \in Addresses : h[a] = f[a] + g[a]
    BY <1>10
  <2>2. \A u, v, w \in [Addresses -> Int] :
          (\A a \in Addresses : w[a] = u[a] + v[a]) => SumFunction(w) = SumFunction(u) + SumFunction(v)
    BY AddressesFinite, SumFunctionAdd
  <2> HIDE DEF f, g, h
  <2> QED BY <2>1, <2>2
<1> HIDE DEF f, g, h, backers
<1> DEFINE x == share * backers
           y == vb * backers
<1>14. /\ x \in Nat /\ y \in Nat
       /\ SumFunction(h) = (r.escrow + r.providerBond + share + rest) + (y + x)
       /\ (share + x) + rest = pool
       /\ Dismiss(r, owner).debit = r.escrow + r.providerBond + y + pool
  BY <1>5, <1>6, <1>7, <1>8, <1>9, <1>11, <1>12, <1>13
<1> HIDE DEF x, y
<1>15. SumFunction(h) = Dismiss(r, owner).debit
  BY <1>1, <1>4, <1>6, <1>14
<1> QED BY <1>5, <1>15 DEF Balanced

LEMMA VoidBalanced ==
  ASSUME NEW r \in Request, NEW owner \in Users
  PROVE  Balanced(Void(r, owner))
<1> DEFINE vb     == VoucherBond(r)
           bonded == r.status \in {"SUBMITTED", "CHALLENGED"}
           posted == r.status = "CHALLENGED" /\ r.challenges # << >>
           bond   == IF posted THEN r.challenges[1].bond ELSE 0
           f == [a \in Addresses |-> Due(a = r.requester, r.escrow)]
           g == [a \in Addresses |-> Due(bonded /\ a = owner, r.providerBond)]
           h == [a \in Addresses |-> IF posted THEN Due(a = r.challenges[1].challenger,
                                                        r.challenges[1].bond) ELSE 0]
           k == [a \in Addresses |-> vb * RowsOf(r.vouchers, a)]
           all == [a \in Addresses |-> f[a] + g[a] + h[a] + k[a]]
<1>1. /\ r.escrow \in Nat /\ r.providerBond \in Nat /\ vb \in Nat
      /\ r.vouchers \in SUBSET Voucher
      /\ posted => r.challenges[1] \in Challenge /\ r.challenges[1].bond \in Nat
  BY RequestParts
<1>2. /\ r.requester \in Addresses /\ owner \in Addresses
      /\ posted => r.challenges[1].challenger \in Addresses
  BY <1>1 DEF Request, Challenge, Addresses
<1>3. vb * Cardinality(r.vouchers) \in Nat
  BY <1>1, SidesPartition, NatTimes
<1>4. /\ Void(r, owner).credit = all
      /\ Void(r, owner).debit = r.escrow + Due(bonded, r.providerBond) + bond
                                  + vb * Cardinality(r.vouchers)
  BY DEF Void
<1> HIDE DEF vb
<1>5. /\ f \in [Addresses -> Nat] /\ g \in [Addresses -> Nat] /\ h \in [Addresses -> Nat]
      /\ k \in [Addresses -> Nat]
  <2>1. \A a \in Addresses : vb * RowsOf(r.vouchers, a) \in Nat
    BY <1>1, RowsOfType, NatTimes
  <2>2. \A a \in Addresses : h[a] \in Nat
    BY <1>1 DEF Due
  <2>3. f \in [Addresses -> Nat] /\ g \in [Addresses -> Nat]
    BY <1>1, DueType
  <2> QED BY <2>1, <2>2, <2>3
<1>6. SumFunction(f) = r.escrow
  BY <1>1, <1>2, DueSum
<1>7. SumFunction(g) = Due(bonded, r.providerBond)
  <2> DEFINE n == Due(bonded, r.providerBond)
  <2>1. n \in Nat /\ DOMAIN g = Addresses /\ \A a \in Addresses : g[a] = Due(a = owner, n)
    BY <1>1 DEF Due
  <2>2. owner \in Addresses
    BY DEF Addresses
  <2> HIDE DEF g, n, bonded
  <2>3. SumFunction(g) = n
    BY <2>1, <2>2, DueSum
  <2> QED BY <2>3 DEF n
<1>8. SumFunction(h) = bond
  <2>1. CASE posted
    <3>1. /\ DOMAIN h = Addresses /\ bond = r.challenges[1].bond
          /\ \A a \in Addresses : h[a] = Due(a = r.challenges[1].challenger, r.challenges[1].bond)
      BY <2>1
    <3> HIDE DEF h, bond
    <3> QED BY <1>1, <1>2, <2>1, <3>1, DueSum
  <2>2. CASE ~posted
    <3>1. DOMAIN h = Addresses /\ bond = 0 /\ \A a \in Addresses : h[a] = 0
      BY <2>2
    <3> HIDE DEF h, bond
    <3> QED BY <3>1, AddressesFinite, SumFunctionZero
  <2> QED BY <2>1, <2>2
<1>9. SumFunction(k) = vb * Cardinality(r.vouchers)
  BY <1>1, RowsSum
<1>10. SumFunction(all) = SumFunction(f) + SumFunction(g) + SumFunction(h) + SumFunction(k)
  <2> HIDE DEF f, g, h, k
  <2> QED BY <1>5, FourCredits
<1> HIDE DEF f, g, h, k, all, bond, bonded
<1>11. SumFunction(all) = Void(r, owner).debit
  BY <1>4, <1>6, <1>7, <1>8, <1>9, <1>10
<1> QED BY <1>4, <1>11 DEF Balanced

LEMMA OutcomeBalanced ==
  ASSUME WellFormed, NEW i \in DOMAIN requests, NEW h
  PROVE  Balanced(Outcome(requests[i], h))
<1> DEFINE r == requests[i]
<1>1. /\ r \in Request /\ Owner(r) \in Users
      /\ r.status = "CHALLENGED" => r.challenges # << >>
  BY Parts
<1>2. Balanced(LeftAlone(r))
  <2>1. SumFunction([a \in Addresses |-> 0]) = 0
    BY AddressesFinite, SumFunctionZero
  <2> QED BY <2>1 DEF Balanced, LeftAlone
<1>3. Balanced(Refund(r)) /\ Balanced(Finalize(r, Owner(r)))
  BY <1>1, RefundBalanced, FinalizeBalanced
<1>4. ResolveDue(r, h) => Balanced(Dismiss(r, Owner(r))) /\ Balanced(Slash(r))
  BY <1>1, DismissBalanced, SlashBalanced DEF ResolveDue
<1> HIDE DEF r
<1>5. Balanced(Outcome(r, h))
  BY <1>2, <1>3, <1>4 DEF Outcome
<1> QED BY <1>5 DEF r

-----------------------------------------------------------------------------
(* The ledger. *)

LEMMA BalancesTyped ==
  ASSUME WellFormed
  PROVE  balances \in [Addresses -> Nat]
BY DEF WellFormed, TypeOK

(* Coins that pass from one address to another. *)
LEMMA Moved ==
  ASSUME WellFormed, WellFormed', NEW from \in Addresses, NEW to \in Addresses, NEW n \in Nat,
         \A a \in Addresses : balances'[a] + Due(a = from, n) = balances[a] + Due(a = to, n)
  PROVE  Total' = Total
<1> DEFINE out == [a \in Addresses |-> Due(a = from, n)]
           in  == [a \in Addresses |-> Due(a = to, n)]
           mid == [a \in Addresses |-> balances[a] + in[a]]
           b == balances
           c == balances'
<1>1. b \in [Addresses -> Nat] /\ c \in [Addresses -> Nat]
  BY DEF WellFormed, TypeOK
<1>2. out \in [Addresses -> Nat] /\ in \in [Addresses -> Nat]
  BY DueType
<1>3. SumFunction(out) = n /\ SumFunction(in) = n
  BY DueSum
<1>4. mid \in [Addresses -> Int] /\ (\A a \in Addresses : mid[a] = b[a] + in[a] /\ mid[a] = c[a] + out[a])
  BY <1>1, <1>2
<1>5. /\ b \in [Addresses -> Int] /\ c \in [Addresses -> Int]
      /\ in \in [Addresses -> Int] /\ out \in [Addresses -> Int]
  BY <1>1, <1>2
<1>6. SumFunction(b) \in Int /\ SumFunction(c) \in Int
  BY <1>5, AddressesFinite, SumFunctionInt
<1> HIDE DEF out, in, mid, b, c
<1>7. \A u, v, w \in [Addresses -> Int] :
         (\A a \in Addresses : w[a] = u[a] + v[a]) => SumFunction(w) = SumFunction(u) + SumFunction(v)
  BY AddressesFinite, SumFunctionAdd
<1>8. SumFunction(mid) = SumFunction(b) + SumFunction(in)
  BY <1>4, <1>5, <1>7
<1>9. SumFunction(mid) = SumFunction(c) + SumFunction(out)
  BY <1>4, <1>5, <1>7
<1> DEFINE x == SumFunction(b)
           y == SumFunction(c)
<1>10. x \in Int /\ y \in Int /\ x + n = y + n
  BY <1>3, <1>6, <1>8, <1>9
<1> HIDE DEF x, y
<1>11. x = y
  BY <1>10
<1> QED BY <1>11 DEF Total, b, c, x, y

LEMMA Locked ==
  ASSUME WellFormed, WellFormed', NEW u \in Users, NEW amount \in Nat, Lock(u, amount)
  PROVE  Total' = Total
<1>1. u \in Addresses /\ Escrow \in Addresses /\ u # Escrow
  BY AddressesDistinct DEF Addresses
<1>2. balances' = [balances EXCEPT ![u] = @ - amount, ![Escrow] = @ + amount]
  BY DEF Lock
<1>3. \A a \in Addresses :
         balances'[a] + Due(a = u, amount) = balances[a] + Due(a = Escrow, amount)
  BY <1>1, <1>2, BalancesTyped DEF Due
<1> QED BY <1>1, <1>3, Moved

LEMMA Released ==
  ASSUME WellFormed, WellFormed', NEW debit \in Nat, NEW credit \in [Addresses -> Nat],
         Release(debit, credit), SumFunction(credit) = debit
  PROVE  Total' = Total
<1> DEFINE out == [a \in Addresses |-> Due(a = Escrow, debit)]
           mid == [a \in Addresses |-> balances[a] + credit[a]]
           b == balances
           c == balances'
<1>1. b \in [Addresses -> Nat] /\ c \in [Addresses -> Nat] /\ Escrow \in Addresses
  BY DEF WellFormed, TypeOK, Addresses
<1>2. out \in [Addresses -> Nat]
  BY DueType
<1>3. SumFunction(out) = debit
  BY <1>1, DueSum
<1>4. \A a \in Addresses : c[a] = b[a] + credit[a] - out[a]
  BY DEF Release
<1>5. mid \in [Addresses -> Int] /\ (\A a \in Addresses : mid[a] = b[a] + credit[a] /\ mid[a] = c[a] + out[a])
  BY <1>1, <1>2, <1>4
<1>6. /\ b \in [Addresses -> Int] /\ c \in [Addresses -> Int]
      /\ credit \in [Addresses -> Int] /\ out \in [Addresses -> Int]
  BY <1>1, <1>2
<1>7. SumFunction(b) \in Int /\ SumFunction(c) \in Int
  BY <1>6, AddressesFinite, SumFunctionInt
<1> HIDE DEF out, mid, b, c
<1>8. \A u, v, w \in [Addresses -> Int] :
         (\A a \in Addresses : w[a] = u[a] + v[a]) => SumFunction(w) = SumFunction(u) + SumFunction(v)
  BY AddressesFinite, SumFunctionAdd
<1>9. SumFunction(mid) = SumFunction(b) + SumFunction(credit)
  BY <1>5, <1>6, <1>8
<1>10. SumFunction(mid) = SumFunction(c) + SumFunction(out)
  BY <1>5, <1>6, <1>8
<1> DEFINE x == SumFunction(b)
           y == SumFunction(c)
<1>11. x \in Int /\ y \in Int /\ x + debit = y + debit
  BY <1>3, <1>7, <1>9, <1>10
<1> HIDE DEF x, y
<1>12. x = y
  BY <1>11
<1> QED BY <1>12 DEF Total, b, c, x, y

-----------------------------------------------------------------------------
(* One lemma per kind of step. *)

LEMMA TransferKeeps ==
  ASSUME WellFormed, WellFormed', NEW u \in Users, NEW to \in Addresses,
         NEW amount \in TransferAmounts, Transfer(u, to, amount)
  PROVE  Total' = Total
<1>1. u \in Addresses /\ amount \in Nat
  BY InputsAreNat DEF Addresses
<1>2. balances' = [balances EXCEPT ![u] = @ - amount, ![to] = @ + amount]
  BY DEF Transfer
<1>3. \A a \in Addresses :
         balances'[a] + Due(a = u, amount) = balances[a] + Due(a = to, amount)
  BY <1>1, <1>2, BalancesTyped DEF Due
<1> QED BY <1>1, <1>3, Moved

LEMMA LockingKeeps ==
  ASSUME WellFormed, WellFormed', NEW u \in Users,
         \/ \E name \in Names, price \in Prices, d \in 0..MaxDomains :
               RegisterService(u, name, price, d)
         \/ \E s \in 1..MaxServices, maxPrice \in Prices, d \in Deadlines, in \in Inputs :
               RequestInference(u, s, maxPrice, d, in)
         \/ \E i \in 1..MaxRequests, att \in Attestation, out \in Outputs :
               SubmitResult(u, i, att, out)
         \/ \E i \in 1..MaxRequests, att \in Attestation : FileChallenge(u, i, att)
         \/ \E i \in 1..MaxRequests, att \in Attestation : Vouch(u, i, att)
  PROVE  Total' = Total
<1>1. \E amount \in Nat : Lock(u, amount)
  <2>1. ASSUME NEW s, s \in DOMAIN services PROVE services[s].price \in Nat
    BY <2>1, Parts DEF Service
  <2>2. ASSUME NEW i, i \in DOMAIN requests PROVE VoucherBond(requests[i]) \in Nat
    BY <2>2, Parts, RequestParts
  <2>3. ServiceRegistrationBond \in Nat /\ ProviderBondAmount \in Nat /\ ChallengerBondAmount \in Nat
    BY ParamsAreNat, BondsAreNat
  <2> QED BY <2>1, <2>2, <2>3 DEF RegisterService, Registrable, RequestInference, SubmitResult, FileChallenge, Challengeable, Vouch, Vouchable
<1> QED BY <1>1, Locked

LEMMA DeactivateServiceKeeps ==
  ASSUME WellFormed, WellFormed', NEW u \in Users, NEW s, DeactivateService(u, s)
  PROVE  Total' = Total
<1> DEFINE bond == services[s].bond
           goes == IF BondRefundable(services[s]) THEN u ELSE Treasury
           credit == [a \in Addresses |-> Due(a = goes, bond)]
<1>1. bond \in Nat /\ Release(bond, credit)
  BY Parts DEF DeactivateService
<1>2. goes \in Addresses
  BY DEF Addresses
<1> HIDE DEF bond, goes
<1>3. credit \in [Addresses -> Nat] /\ SumFunction(credit) = bond
  BY <1>1, <1>2, DueType, DueSum
<1> HIDE DEF credit
<1> QED BY <1>1, <1>3, Released

LEMMA SubmitAndFinalizeKeeps ==
  ASSUME WellFormed, WellFormed', NEW u \in Users, NEW i, NEW att, NEW out \in Outputs,
         SubmitAndFinalize(u, i, att, out)
  PROVE  Total' = Total
<1> DEFINE price == requests[i].escrow
           r == Submitted(requests[i], out)
           f == Finalize(r, u)
<1>1. /\ u \in Addresses /\ Escrow \in Addresses /\ u # Escrow
      /\ ProviderBondAmount \in Nat
  BY AddressesDistinct, BondsAreNat DEF Addresses
<1>2. i \in DOMAIN requests /\ requests[i] \in Request /\ price \in Nat
  BY Parts DEF SubmitAndFinalize, Request
<1>3. r.escrow = price /\ r.providerBond = ProviderBondAmount
  BY <1>2 DEF Submitted, Request
<1>4. f.debit = price + ProviderBondAmount /\ f.credit[u] = price + ProviderBondAmount
  <2> HIDE DEF r
  <2> QED BY <1>1, <1>3 DEF Finalize, Due
<1>5. balances' = [balances EXCEPT ![u] = @ - ProviderBondAmount + f.credit[u],
                                  ![Escrow] = @ + ProviderBondAmount - f.debit]
  BY DEF SubmitAndFinalize
<1> HIDE DEF f, price
<1>6. \A a \in Addresses : balances'[a] + Due(a = Escrow, price) = balances[a] + Due(a = u, price)
  BY <1>1, <1>2, <1>4, <1>5, BalancesTyped DEF Due
<1> QED BY <1>1, <1>2, <1>6, Moved

LEMMA ResolveChallengeKeeps ==
  ASSUME WellFormed, WellFormed', NEW u \in Users, NEW i, NEW decision,
         ResolveChallenge(u, i, decision)
  PROVE  Total' = Total
<1> DEFINE r == requests[i]
           out == IF decision = "dismiss" THEN Dismiss(r, Owner(r)) ELSE Slash(r)
<1>1. i \in DOMAIN requests /\ r.status = "CHALLENGED" /\ Release(out.debit, out.credit)
  BY DEF ResolveChallenge
<1>2. r \in Request /\ Owner(r) \in Users /\ r.challenges # << >>
  BY <1>1, Parts
<1>3. out \in Settlements /\ Balanced(out)
  BY <1>2, DismissType, SlashType, DismissBalanced, SlashBalanced
<1> HIDE DEF out
<1> QED BY <1>1, <1>3, Released DEF Settlements, Balanced

LEMMA CommitBlockKeeps ==
  ASSUME WellFormed, WellFormed', CommitBlock
  PROVE  Total' = Total
<1> DEFINE out == [i \in DOMAIN requests |-> Outcome(requests[i], height + 1)]
           n == nextReqID - 1
           debit == [i \in DOMAIN requests |-> out[i].debit]
           credit(a) == [i \in DOMAIN requests |-> out[i].credit[a]]
           got == [a \in Addresses |-> SumTo(credit(a), n)]
           rows == [i \in 1..n |-> out[i].credit]
           sums == [i \in 1..n |-> SumFunction(rows[i])]
<1>1. Release(SumTo(debit, n), got)
  BY DEF CommitBlock
<1>2. n \in Nat /\ DOMAIN requests = 1..n
  BY Parts
<1>3. ASSUME NEW i \in 1..n
      PROVE  /\ debit[i] \in Nat /\ rows[i] \in [Addresses -> Nat]
             /\ sums[i] = debit[i]
             /\ \A a \in Addresses : credit(a)[i] = rows[i][a]
  <2>1. out[i] \in Settlements /\ Balanced(out[i])
    BY <1>2, OutcomeType, OutcomeBalanced
  <2> HIDE DEF out
  <2> QED BY <1>2, <2>1 DEF Settlements, Balanced
<1>4. \A a \in Addresses : credit(a) = [i \in 1..n |-> rows[i][a]]
  BY <1>2, <1>3
<1> HIDE DEF credit
<1>5. got = [a \in Addresses |-> SumTo([i \in 1..n |-> rows[i][a]], n)]
  BY <1>4
<1> HIDE DEF debit, rows, out
<1>6. \A i \in 1..n : rows[i] \in [Addresses -> Int]
  BY <1>3
<1>7. got \in [Addresses -> Nat]
  <2>1. \A a \in Addresses : \A i \in 1..n : credit(a)[i] \in Nat
    BY <1>3
  <2>2. \A a \in Addresses : SumTo(credit(a), n) \in Nat
    BY <1>2, <2>1, SumNat
  <2> QED BY <2>2
<1> HIDE DEF got, n
<1>8. SumFunction(got) = SumTo(sums, n)
  <2> HIDE DEF sums
  <2>1. SumFunction(got) = SumTo([i \in 1..n |-> SumFunction(rows[i])], n)
    BY <1>2, <1>5, <1>6, AddressesFinite, SumsSwap
  <2> QED BY <2>1 DEF sums
<1> HIDE DEF sums
<1>9. SumTo(debit, n) \in Nat /\ SumTo(sums, n) = SumTo(debit, n)
  BY <1>2, <1>3, SumNat, SumEqual
<1> QED BY <1>1, <1>7, <1>8, <1>9, Released

LEMMA DeactivateDomainKeeps ==
  ASSUME WellFormed, WellFormed', NEW u \in Users, NEW d, DeactivateDomain(u, d)
  PROVE  Total' = Total
<1> DEFINE closing == {s \in BoundTo(d) : services[s].active}
           voided  == VoidedBy(d)
           out     == [i \in DOMAIN requests |-> Void(requests[i], Owner(requests[i]))]
           bond    == [s \in DOMAIN services |-> Due(s \in closing, services[s].bond)]
           refund(a) == [s \in DOMAIN services |-> Due(services[s].owner = a, bond[s])]
           debit   == [i \in DOMAIN requests |-> Due(i \in voided, out[i].debit)]
           credit(a) == [i \in DOMAIN requests |-> Due(i \in voided, out[i].credit[a])]
           m == nextSvcID - 1
           n == nextReqID - 1
           bonds  == [a \in Addresses |-> SumTo(refund(a), m)]
           stakes == [a \in Addresses |-> SumTo(credit(a), n)]
           got    == [a \in Addresses |-> SumTo(refund(a), m) + SumTo(credit(a), n)]
           bondRows  == [s \in 1..m |-> [a \in Addresses |-> refund(a)[s]]]
           stakeRows == [i \in 1..n |-> [a \in Addresses |-> credit(a)[i]]]
           bondSums  == [s \in 1..m |-> SumFunction(bondRows[s])]
           stakeSums == [i \in 1..n |-> SumFunction(stakeRows[i])]
<1>1. Release(SumTo(bond, m) + SumTo(debit, n), got)
  BY DEF DeactivateDomain
<1>2. m \in Nat /\ n \in Nat /\ DOMAIN services = 1..m /\ DOMAIN requests = 1..n
  BY Parts
<1>3. ASSUME NEW s \in 1..m
      PROVE  /\ bond[s] \in Nat /\ bondSums[s] = bond[s]
             /\ \A a \in Addresses : refund(a)[s] \in Nat
  <2>1. services[s].owner \in Addresses /\ bond[s] \in Nat
    BY <1>2, Parts DEF Due, Addresses
  <2>2. \A a \in Addresses : refund(a)[s] = Due(a = services[s].owner, bond[s])
    BY <1>2 DEF Due
  <2>3. bondSums[s] = SumFunction(bondRows[s]) /\ DOMAIN bondRows[s] = Addresses
    OBVIOUS
  <2>4. \A a \in Addresses : bondRows[s][a] = Due(a = services[s].owner, bond[s])
    BY <2>2
  <2> HIDE DEF bond, bondRows, bondSums, refund
  <2>5. SumFunction(bondRows[s]) = bond[s]
    BY <2>1, <2>3, <2>4, DueSum
  <2> QED BY <2>1, <2>2, <2>3, <2>5, DueType
<1>4. ASSUME NEW i \in 1..n
      PROVE  /\ debit[i] \in Nat /\ stakeSums[i] = debit[i]
             /\ \A a \in Addresses : credit(a)[i] \in Nat
  <2>1. out[i] \in Settlements /\ Balanced(out[i])
    BY <1>2, Parts, VoidType, VoidBalanced
  <2>2. /\ stakeSums[i] = SumFunction(stakeRows[i])
        /\ stakeRows[i] = [a \in Addresses |-> Due(i \in voided, out[i].credit[a])]
        /\ debit[i] = Due(i \in voided, out[i].debit)
        /\ \A a \in Addresses : credit(a)[i] = Due(i \in voided, out[i].credit[a])
    BY <1>2
  <2> HIDE DEF out, stakeRows, stakeSums, debit, credit, voided
  <2>3. CASE i \in voided
    <3>1. stakeRows[i] = out[i].credit
      BY <2>1, <2>2, <2>3 DEF Due, Settlements
    <3> QED BY <2>1, <2>2, <2>3, <3>1 DEF Due, Settlements, Balanced
  <2>4. CASE i \notin voided
    <3>1. DOMAIN stakeRows[i] = Addresses /\ \A a \in Addresses : stakeRows[i][a] = 0
      BY <2>2, <2>4 DEF Due
    <3>2. SumFunction(stakeRows[i]) = 0
      BY <3>1, AddressesFinite, SumFunctionZero
    <3> QED BY <2>2, <2>4, <3>2 DEF Due
  <2> QED BY <2>3, <2>4
<1>5. /\ \A s \in 1..m : bondRows[s] \in [Addresses -> Int]
      /\ \A i \in 1..n : stakeRows[i] \in [Addresses -> Int]
  <2> HIDE DEF refund, credit, bond, debit, m, n, stakeSums, bondSums
  <2>1. \A s \in 1..m : \A a \in Addresses : refund(a)[s] \in Int
    BY <1>3
  <2>2. \A i \in 1..n : \A a \in Addresses : credit(a)[i] \in Int
    BY <1>4
  <2> QED BY <2>1, <2>2
<1>6. /\ \A a \in Addresses : refund(a) = [s \in 1..m |-> bondRows[s][a]]
      /\ \A a \in Addresses : credit(a) = [i \in 1..n |-> stakeRows[i][a]]
  <2>1. ASSUME NEW a \in Addresses PROVE refund(a) = [s \in 1..m |-> bondRows[s][a]]
    BY <1>2
  <2>2. ASSUME NEW a \in Addresses PROVE credit(a) = [i \in 1..n |-> stakeRows[i][a]]
    BY <1>2
  <2> QED BY <2>1, <2>2
<1> HIDE DEF bond, debit, refund, credit
<1>7. /\ bonds = [a \in Addresses |-> SumTo([s \in 1..m |-> bondRows[s][a]], m)]
      /\ stakes = [a \in Addresses |-> SumTo([i \in 1..n |-> stakeRows[i][a]], n)]
  BY <1>6
<1>8. bonds \in [Addresses -> Nat] /\ stakes \in [Addresses -> Nat]
  <2>1. \A a \in Addresses : SumTo(refund(a), m) \in Nat
    BY <1>2, <1>3, SumNat
  <2>2. \A a \in Addresses : SumTo(credit(a), n) \in Nat
    BY <1>2, <1>4, SumNat
  <2> QED BY <2>1, <2>2
<1>9. got = [a \in Addresses |-> bonds[a] + stakes[a]]
  OBVIOUS
<1> HIDE DEF bonds, stakes, got, bondRows, stakeRows, m, n
<1>10. /\ SumFunction(bonds) = SumTo(bondSums, m)
       /\ SumFunction(stakes) = SumTo(stakeSums, n)
  <2>1. SumFunction(bonds) = SumTo(bondSums, m)
    BY <1>2, <1>5, <1>7, AddressesFinite, SumsSwap
  <2>2. SumFunction(stakes) = SumTo(stakeSums, n)
    BY <1>2, <1>5, <1>7, AddressesFinite, SumsSwap
  <2> QED BY <2>1, <2>2
<1> HIDE DEF bondSums, stakeSums
<1>11. /\ SumTo(bond, m) \in Nat /\ SumTo(bondSums, m) = SumTo(bond, m)
       /\ SumTo(debit, n) \in Nat /\ SumTo(stakeSums, n) = SumTo(debit, n)
  <2>1. SumTo(bond, m) \in Nat /\ SumTo(bondSums, m) = SumTo(bond, m)
    BY <1>2, <1>3, SumNat, SumEqual
  <2>2. SumTo(debit, n) \in Nat /\ SumTo(stakeSums, n) = SumTo(debit, n)
    BY <1>2, <1>4, SumNat, SumEqual
  <2> QED BY <2>1, <2>2
<1>12. SumFunction(got) = SumFunction(bonds) + SumFunction(stakes)
  <2>1. /\ got \in [Addresses -> Int] /\ bonds \in [Addresses -> Int] /\ stakes \in [Addresses -> Int]
        /\ \A a \in Addresses : got[a] = bonds[a] + stakes[a]
    BY <1>8, <1>9
  <2> QED BY <2>1, AddressesFinite, SumFunctionAdd
<1>13. got \in [Addresses -> Nat]
  BY <1>8, <1>9
<1> DEFINE paid == SumTo(bond, m) + SumTo(debit, n)
<1>14. paid \in Nat /\ SumFunction(got) = paid /\ Release(paid, got)
  BY <1>1, <1>10, <1>11, <1>12
<1> HIDE DEF paid
<1> QED BY <1>13, <1>14, Released

-----------------------------------------------------------------------------

LEMMA InitSupply ==
  ASSUME Init
  PROVE  Total = SumFunction(Genesis)
<1>1. /\ DOMAIN balances = Addresses
      /\ \A a \in Addresses : balances[a] = IF a \in Users THEN Genesis[a] ELSE 0
  BY DEF Init
<1>2. Users \subseteq Addresses /\ Genesis \in [Users -> Int]
  BY GenesisIsNat DEF Addresses
<1> QED BY <1>1, <1>2, AddressesFinite, SumFunctionExtended DEF Total

LEMMA NextSupply ==
  ASSUME WellFormed, WellFormed', [Next]_vars
  PROVE  Total' = Total
<1>1. ASSUME NEW u \in Users, Tx(u) PROVE Total' = Total
  <2>1. CASE \/ \E s \in 1..MaxServices, price \in Prices : UpdateService(u, s, price)
             \/ \E margin \in Margins : RegisterDomain(u, margin)
    <3>1. UNCHANGED balances
      BY <2>1 DEF UpdateService, Updatable, RegisterDomain, MayRegisterDomain
    <3> QED BY <3>1 DEF Total
  <2> QED BY <1>1, <2>1, LockingKeeps, DeactivateServiceKeeps, DeactivateDomainKeeps,
             TransferKeeps, SubmitAndFinalizeKeeps, ResolveChallengeKeeps DEF Tx
<1>2. CASE CommitBlock
  BY <1>2, CommitBlockKeeps
<1>3. CASE UNCHANGED vars
  BY <1>3 DEF vars, Total
<1>4. CASE AtHorizon
  BY <1>3, <1>4 DEF AtHorizon
<1> QED BY <1>1, <1>2, <1>3, <1>4 DEF Next

(* SupplyConserved: whatever is transferred, staked, settled, slashed,     *)
(* shared among vouchers or swept to the treasury, by a transaction, a     *)
(* block or a cascade, the balances still add up to the genesis allocation.*)
THEOREM SupplyAlwaysConserved == Spec => []SupplyConserved
<1>1. Init => SupplyConserved
  BY InitSupply DEF SupplyConserved, Total
<1>2. WellFormed /\ WellFormed' /\ SupplyConserved /\ [Next]_vars => SupplyConserved'
  BY NextSupply DEF SupplyConserved, Total
<1> QED BY <1>1, <1>2, AlwaysWellFormed, PTL DEF Spec

-----------------------------------------------------------------------------
(***************************************************************************)
(* The escrow account covers every stake it holds, and holds nothing else  *)
(* but what was transferred to its address, for any number of services and *)
(* requests and any parameters.                                            *)
(*                                                                         *)
(* The argument: a handler that stakes credits the escrow account with     *)
(* what the record then holds, and a settlement debits exactly what the    *)
(* record held, LockedFor(r), whatever its outcome, and pays none of it to *)
(* the account itself.  A block or a cascade is a sum of such settlements, *)
(* row by row.                                                             *)
(***************************************************************************)

Staked(reqs, n) == SumTo([i \in DOMAIN reqs |-> LockedFor(reqs[i])], n - 1)
Bonded(svcs, n) == SumTo([s \in DOMAIN svcs |-> svcs[s].bond], n - 1)

Held == Staked(requests, nextReqID) + Bonded(services, nextSvcID)

(* What the account has beyond that. *)
Excess == balances[Escrow] - Held

-----------------------------------------------------------------------------
(* What a request holds. *)

LEMMA LockedForByStatus ==
  ASSUME NEW r \in Request, MatchesStatus(r)
  PROVE  /\ r.status = "PENDING" => LockedFor(r) = r.escrow
         /\ r.status = "SUBMITTED" => LockedFor(r) = r.escrow + r.providerBond
         /\ r.status = "CHALLENGED" =>
              LockedFor(r) = r.escrow + r.providerBond + r.challenges[1].bond
                               + VoucherBond(r) * Cardinality(r.vouchers)
         /\ r.status \in TerminalStatuses => LockedFor(r) = 0
<1>1. r.escrow \in Nat /\ r.providerBond \in Nat /\ VoucherBond(r) \in Nat
  BY RequestParts
<1>2. ASSUME r.status \in {"PENDING", "SUBMITTED"}
      PROVE  LockedFor(r) = r.escrow + r.providerBond
  <2>1. r.challenges = << >> /\ r.vouchers = {}
    BY <1>2 DEF MatchesStatus
  <2>2. VoucherBond(r) * Cardinality(r.vouchers) = 0
    BY <1>1, <2>1, FS_EmptySet
  <2> QED BY <1>1, <1>2, <2>1, <2>2 DEF LockedFor, IsOpen, OpenStatuses
<1>3. ASSUME r.status = "PENDING" PROVE LockedFor(r) = r.escrow
  BY <1>1, <1>2, <1>3 DEF MatchesStatus
<1>4. ASSUME r.status = "CHALLENGED" PROVE r.challenges # << >>
  BY <1>4 DEF MatchesStatus, Request
<1>5. ASSUME r.status = "CHALLENGED"
      PROVE  LockedFor(r) = r.escrow + r.providerBond + r.challenges[1].bond
                              + VoucherBond(r) * Cardinality(r.vouchers)
  BY <1>4, <1>5 DEF LockedFor, IsOpen, OpenStatuses
<1>6. ASSUME r.status \in TerminalStatuses PROVE LockedFor(r) = 0
  BY <1>6 DEF LockedFor, IsOpen, OpenStatuses, TerminalStatuses
<1> QED BY <1>2, <1>3, <1>5, <1>6

LEMMA LockedForType ==
  ASSUME NEW r \in Request, MatchesStatus(r)
  PROVE  LockedFor(r) \in Nat
<1>1. /\ r.escrow \in Nat /\ r.providerBond \in Nat /\ VoucherBond(r) \in Nat
      /\ r.vouchers \in SUBSET Voucher
      /\ r.challenges # << >> => r.challenges[1].bond \in Nat
  BY RequestParts
<1>2. VoucherBond(r) * Cardinality(r.vouchers) \in Nat
  BY <1>1, SidesPartition, NatTimes
<1> QED BY <1>1, <1>2 DEF LockedFor

(* Every outcome debits exactly what the request held.                     *)
LEMMA DebitsWhatIsHeld ==
  ASSUME NEW r \in Request, MatchesStatus(r), NEW owner
  PROVE  /\ r.status = "PENDING" => Refund(r).debit = LockedFor(r)
         /\ r.status = "SUBMITTED" => Finalize(r, owner).debit = LockedFor(r)
         /\ r.status = "CHALLENGED" => /\ Slash(r).debit = LockedFor(r)
                                       /\ Dismiss(r, owner).debit = LockedFor(r)
         /\ IsOpen(r) => Void(r, owner).debit = LockedFor(r)
<1> DEFINE vb == VoucherBond(r)
<1>1. /\ r.escrow \in Nat /\ r.providerBond \in Nat /\ vb \in Nat
      /\ r.vouchers \in SUBSET Voucher
      /\ r.challenges # << >> => r.challenges[1].bond \in Nat
  BY RequestParts
<1>2. r.status = "CHALLENGED" => r.challenges # << >>
  BY DEF MatchesStatus, Request
<1>3. r.status = "PENDING" => Refund(r).debit = LockedFor(r)
  BY LockedForByStatus DEF Refund
<1>4. r.status = "SUBMITTED" => Finalize(r, owner).debit = LockedFor(r)
  BY LockedForByStatus DEF Finalize
<1>5. r.status = "CHALLENGED" => Slash(r).debit = LockedFor(r)
  BY LockedForByStatus DEF Slash
<1>6. r.status = "CHALLENGED" => Dismiss(r, owner).debit = LockedFor(r)
  <2>1. /\ Cardinality(Backers(r)) \in Nat
        /\ Cardinality(Doubters(r)) \in Nat
        /\ Cardinality(r.vouchers) = Cardinality(Backers(r)) + Cardinality(Doubters(r))
    BY <1>1, SidesPartition
  <2>2. vb * Cardinality(r.vouchers) = vb * Cardinality(Backers(r)) + vb * Cardinality(Doubters(r))
    BY <1>1, <2>1, NatTimesSum
  <2>3. vb * Cardinality(Backers(r)) \in Nat /\ vb * Cardinality(Doubters(r)) \in Nat
    BY <1>1, <2>1, NatTimes
  <2>4. Dismiss(r, owner).debit = r.escrow + r.providerBond + vb * Cardinality(Backers(r))
                                    + (r.challenges[1].bond + vb * Cardinality(Doubters(r)))
    BY DEF Dismiss
  <2> QED BY <1>1, <1>2, <2>2, <2>3, <2>4, LockedForByStatus
<1>7. IsOpen(r) => Void(r, owner).debit = LockedFor(r)
  <2>1. vb * Cardinality(r.vouchers) \in Nat
    BY <1>1, SidesPartition, NatTimes
  <2>2. r.vouchers = {} => vb * Cardinality(r.vouchers) = 0
    BY <1>1, FS_EmptySet
  <2>3. CASE r.status = "PENDING"
    <3>1. Void(r, owner).debit = r.escrow + 0 + 0 + vb * Cardinality(r.vouchers)
      BY <2>3 DEF Void, Due
    <3>2. r.vouchers = {}
      BY <2>3 DEF MatchesStatus
    <3> QED BY <1>1, <2>2, <2>3, <3>1, <3>2, LockedForByStatus
  <2>4. CASE r.status = "SUBMITTED"
    <3>1. Void(r, owner).debit = r.escrow + r.providerBond + 0 + vb * Cardinality(r.vouchers)
      BY <2>4 DEF Void, Due
    <3>2. r.vouchers = {}
      BY <2>4 DEF MatchesStatus
    <3> QED BY <1>1, <2>2, <2>4, <3>1, <3>2, LockedForByStatus
  <2>5. CASE r.status = "CHALLENGED"
    <3>1. Void(r, owner).debit = r.escrow + r.providerBond + r.challenges[1].bond
                                   + vb * Cardinality(r.vouchers)
      BY <1>2, <2>5 DEF Void, Due
    <3> QED BY <2>5, <3>1, LockedForByStatus
  <2> QED BY <2>3, <2>4, <2>5 DEF IsOpen, OpenStatuses
<1> QED BY <1>3, <1>4, <1>5, <1>6, <1>7

-----------------------------------------------------------------------------
(* What all requests, and all services, hold. *)

LEMMA HeldType ==
  ASSUME WellFormed
  PROVE  /\ Staked(requests, nextReqID) \in Nat
         /\ Bonded(services, nextSvcID) \in Nat
         /\ balances[Escrow] \in Nat
<1>1. \A i \in DOMAIN requests : LockedFor(requests[i]) \in Nat
  BY Parts, LockedForType
<1>2. Staked(requests, nextReqID) \in Nat
  BY <1>1, Parts, SumNat DEF Staked
<1>3. Bonded(services, nextSvcID) \in Nat
  BY Parts, SumNat DEF Bonded
<1>4. balances[Escrow] \in Nat
  BY DEF WellFormed, TypeOK, Addresses
<1> QED BY <1>2, <1>3, <1>4

LEMMA StakedWithOneWritten ==
  ASSUME WellFormed, NEW i \in DOMAIN requests, NEW row \in Request, MatchesStatus(row)
  PROVE  Staked(Put(requests, i, row), nextReqID)
           = Staked(requests, nextReqID) + LockedFor(row) - LockedFor(requests[i])
<1> DEFINE f == [k \in DOMAIN requests |-> LockedFor(requests[k])]
           p == Put(requests, i, row)
           g == [k \in DOMAIN p |-> LockedFor(p[k])]
<1>1. DOMAIN p = DOMAIN requests /\ p[i] = row
      /\ \A k \in DOMAIN requests : k # i => p[k] = requests[k]
  BY DEF Put
<1>2. /\ LockedFor(row) \in Int
      /\ \A k \in DOMAIN requests : LockedFor(requests[k]) \in Int
  BY Parts, LockedForType
<1>3. /\ g[i] = LockedFor(row) /\ f[i] = LockedFor(requests[i])
      /\ \A k \in DOMAIN requests : f[k] \in Int /\ (k # i => g[k] = f[k])
  BY <1>1, <1>2
<1>4. DOMAIN requests = 1..nextReqID-1 /\ nextReqID-1 \in Nat
  BY Parts
<1>5. Staked(p, nextReqID) = SumTo(g, nextReqID-1) /\ Staked(requests, nextReqID) = SumTo(f, nextReqID-1)
  BY DEF Staked
<1> HIDE DEF f, g, p
<1>6. SumTo(g, nextReqID-1) = SumTo(f, nextReqID-1) + g[i] - f[i]
  <2>1. i \in 1..nextReqID-1 /\ g[i] \in Int
    BY <1>2, <1>3, <1>4
  <2>2. \A k \in 1..nextReqID-1 : f[k] \in Int /\ (k # i => g[k] = f[k])
    BY <1>3, <1>4
  <2>3. nextReqID-1 \in Nat
    BY <1>4
  <2> QED BY ONLY <2>1, <2>2, <2>3, SumChange
<1> QED BY <1>3, <1>5, <1>6 DEF p

LEMMA StakedWithOneMore ==
  ASSUME WellFormed, NEW row \in Request, MatchesStatus(row)
  PROVE  Staked(Put(requests, nextReqID, row), nextReqID + 1)
           = Staked(requests, nextReqID) + LockedFor(row)
<1> DEFINE f == [k \in DOMAIN requests |-> LockedFor(requests[k])]
           p == Put(requests, nextReqID, row)
           g == [k \in DOMAIN p |-> LockedFor(p[k])]
           n == nextReqID - 1
<1>1. DOMAIN requests = 1..n /\ n \in Nat /\ nextReqID = n + 1
  BY Parts
<1>2. /\ DOMAIN p = 1..n+1 /\ p[n+1] = row
      /\ \A k \in 1..n : p[k] = requests[k]
  BY <1>1 DEF Put
<1>3. /\ LockedFor(row) \in Int
      /\ \A k \in 1..n : LockedFor(requests[k]) \in Int
  BY <1>1, Parts, LockedForType
<1>4. /\ g[n+1] = LockedFor(row)
      /\ \A k \in 1..n : f[k] \in Int /\ g[k] = f[k]
      /\ \A k \in 1..n+1 : g[k] \in Int
  <2>1. g[n+1] = LockedFor(row) /\ g[n+1] \in Int
    BY <1>1, <1>2, <1>3
  <2>2. ASSUME NEW k \in 1..n PROVE f[k] \in Int /\ g[k] = f[k]
    BY <1>1, <1>2, <1>3
  <2>3. \A k \in 1..n+1 : k = n+1 \/ k \in 1..n
    BY <1>1
  <2> HIDE DEF f, g
  <2> QED BY <2>1, <2>2, <2>3
<1>5. Staked(p, nextReqID + 1) = SumTo(g, n+1) /\ Staked(requests, nextReqID) = SumTo(f, n)
  BY <1>1 DEF Staked
<1> HIDE DEF f, g, p, n
<1>6. SumTo(g, n+1) = SumTo(g, n) + g[n+1]
  BY <1>1, <1>4, SumStep
<1>7. SumTo(g, n) = SumTo(f, n)
  BY <1>1, <1>4, SumEqual
<1> QED BY <1>4, <1>5, <1>6, <1>7 DEF p

LEMMA BondedWithOneWritten ==
  ASSUME WellFormed, NEW s \in DOMAIN services, NEW row \in Service
  PROVE  Bonded(Put(services, s, row), nextSvcID)
           = Bonded(services, nextSvcID) + row.bond - services[s].bond
<1> DEFINE f == [k \in DOMAIN services |-> services[k].bond]
           p == Put(services, s, row)
           g == [k \in DOMAIN p |-> p[k].bond]
<1>1. DOMAIN p = DOMAIN services /\ p[s] = row
      /\ \A k \in DOMAIN services : k # s => p[k] = services[k]
  BY DEF Put
<1>2. row.bond \in Int /\ \A k \in DOMAIN services : services[k].bond \in Int
  BY Parts DEF Service
<1>3. /\ g[s] = row.bond /\ g[s] \in Int /\ f[s] = services[s].bond
      /\ \A k \in DOMAIN services : f[k] \in Int /\ (k # s => g[k] = f[k])
  BY <1>1, <1>2
<1>4. DOMAIN services = 1..nextSvcID-1 /\ nextSvcID-1 \in Nat
  BY Parts
<1>5. Bonded(p, nextSvcID) = SumTo(g, nextSvcID-1) /\ Bonded(services, nextSvcID) = SumTo(f, nextSvcID-1)
  BY DEF Bonded
<1> HIDE DEF f, g, p
<1>6. SumTo(g, nextSvcID-1) = SumTo(f, nextSvcID-1) + g[s] - f[s]
  <2>1. s \in 1..nextSvcID-1 /\ g[s] \in Int
    BY <1>2, <1>3, <1>4
  <2>2. \A k \in 1..nextSvcID-1 : f[k] \in Int /\ (k # s => g[k] = f[k])
    BY <1>3, <1>4
  <2>3. nextSvcID-1 \in Nat
    BY <1>4
  <2> QED BY ONLY <2>1, <2>2, <2>3, SumChange
<1> QED BY <1>3, <1>5, <1>6 DEF p

LEMMA BondedWithOneMore ==
  ASSUME WellFormed, NEW row \in Service
  PROVE  Bonded(Put(services, nextSvcID, row), nextSvcID + 1)
           = Bonded(services, nextSvcID) + row.bond
<1> DEFINE f == [k \in DOMAIN services |-> services[k].bond]
           p == Put(services, nextSvcID, row)
           g == [k \in DOMAIN p |-> p[k].bond]
           n == nextSvcID - 1
<1>1. DOMAIN services = 1..n /\ n \in Nat /\ nextSvcID = n + 1
  BY Parts
<1>2. /\ DOMAIN p = 1..n+1 /\ p[n+1] = row
      /\ \A k \in 1..n : p[k] = services[k]
  BY <1>1 DEF Put
<1>3. row.bond \in Int /\ \A k \in 1..n : services[k].bond \in Int
  BY <1>1, Parts DEF Service
<1>4. /\ g[n+1] = row.bond
      /\ \A k \in 1..n : f[k] \in Int /\ g[k] = f[k]
      /\ \A k \in 1..n+1 : g[k] \in Int
  <2>1. g[n+1] = row.bond /\ g[n+1] \in Int
    BY <1>1, <1>2, <1>3
  <2>2. ASSUME NEW k \in 1..n PROVE f[k] \in Int /\ g[k] = f[k]
    BY <1>1, <1>2, <1>3
  <2>3. \A k \in 1..n+1 : k = n+1 \/ k \in 1..n
    BY <1>1
  <2> HIDE DEF f, g
  <2> QED BY <2>1, <2>2, <2>3
<1>5. Bonded(p, nextSvcID + 1) = SumTo(g, n+1) /\ Bonded(services, nextSvcID) = SumTo(f, n)
  BY <1>1 DEF Bonded
<1> HIDE DEF f, g, p, n
<1>6. SumTo(g, n+1) = SumTo(g, n) + g[n+1]
  BY <1>1, <1>4, SumStep
<1>7. SumTo(g, n) = SumTo(f, n)
  BY <1>1, <1>4, SumEqual
<1> QED BY <1>4, <1>5, <1>6, <1>7 DEF p

-----------------------------------------------------------------------------
(* What the escrow address is paid: nothing. *)

LEMMA NothingToEscrow ==
  ASSUME NEW r \in Request, NEW owner \in Users
  PROVE  /\ Refund(r).credit[Escrow] = 0
         /\ Finalize(r, owner).credit[Escrow] = 0
         /\ Void(r, owner).credit[Escrow] = 0
         /\ r.challenges # << >> => /\ Slash(r).credit[Escrow] = 0
                                    /\ Dismiss(r, owner).credit[Escrow] = 0
<1> DEFINE vb == VoucherBond(r)
           c  == r.challenges[1]
<1>1. /\ vb \in Nat /\ r.vouchers \in SUBSET Voucher
      /\ r.challenges # << >> => c \in Challenge /\ c.bond \in Nat
  BY RequestParts
<1>2. /\ Escrow \in Addresses /\ Escrow # r.requester /\ Escrow # owner /\ Escrow # Treasury
      /\ r.challenges # << >> => Escrow # c.challenger
  BY <1>1, AddressesDistinct DEF Request, Challenge, Addresses
<1>3. ASSUME NEW V \in SUBSET Voucher PROVE RowsOf(V, Escrow) = 0
  <2>1. {v \in V : v.voucher = Escrow} = {}
    BY AddressesDistinct DEF Voucher
  <2> QED BY <2>1, FS_EmptySet DEF RowsOf
<1>4. /\ RowsOf(r.vouchers, Escrow) = 0
      /\ RowsOf(Backers(r), Escrow) = 0
      /\ RowsOf(Doubters(r), Escrow) = 0
  BY <1>1, <1>3 DEF Backers, Doubters
<1>5. Refund(r).credit[Escrow] = 0 /\ Finalize(r, owner).credit[Escrow] = 0
  BY <1>2 DEF Refund, Finalize, Due
<1>6. \A x \in Nat : x * 0 = 0
  OBVIOUS
<1>7. Void(r, owner).credit[Escrow] = 0
  <2>1. Void(r, owner).credit[Escrow] = 0 + 0 + 0 + vb * RowsOf(r.vouchers, Escrow)
    BY <1>2 DEF Void, Due
  <2> QED BY <1>1, <1>4, <1>6, <2>1
<1>8. ASSUME r.challenges # << >>
      PROVE  Slash(r).credit[Escrow] = 0 /\ Dismiss(r, owner).credit[Escrow] = 0
  <2> DEFINE share == Share(c.bond + vb * Cardinality(Doubters(r)), 1 + Cardinality(Backers(r)))
  <2>1. Slash(r).credit[Escrow] = 0 + 0 + 0 + vb * RowsOf(Doubters(r), Escrow)
    BY <1>2, <1>8 DEF Slash, Due
  <2>2. Dismiss(r, owner).credit[Escrow] = 0 + (vb + share) * RowsOf(Backers(r), Escrow)
    BY <1>2 DEF Dismiss, Due
  <2>3. vb + share \in Nat
    <3>1. Cardinality(Backers(r)) \in Nat /\ Cardinality(Doubters(r)) \in Nat
      BY <1>1, SidesPartition
    <3>2. c.bond + vb * Cardinality(Doubters(r)) \in Nat /\ 1 + Cardinality(Backers(r)) \in Nat \ {0}
      BY <1>1, <1>8, <3>1, NatTimes
    <3>3. share \in Nat
      BY <3>2, ShareType
    <3> QED BY <1>1, <3>3
  <2> HIDE DEF vb, share
  <2> QED BY <1>1, <1>4, <1>6, <2>1, <2>2, <2>3
<1> QED BY <1>5, <1>7, <1>8

LEMMA ReleaseExact ==
  ASSUME WellFormed, NEW debit \in Nat, NEW credit \in [Addresses -> Nat],
         credit[Escrow] = 0, Release(debit, credit)
  PROVE  balances'[Escrow] = balances[Escrow] - debit
<1>1. Escrow \in Addresses /\ balances[Escrow] \in Nat
  BY DEF WellFormed, TypeOK, Addresses
<1> QED BY <1>1 DEF Release, Due

-----------------------------------------------------------------------------
(* Each action but a transfer leaves the account what it had beyond. *)

(* A transaction that writes one request.                                  *)
LEMMA RequestStepExact ==
  ASSUME WellFormed, NEW i \in DOMAIN requests, NEW row \in Request,
         MatchesStatus(row), requests' = Put(requests, i, row),
         UNCHANGED <<nextReqID, registry>>,
         balances'[Escrow] = balances[Escrow] + LockedFor(row) - LockedFor(requests[i]),
         balances'[Escrow] \in Nat
  PROVE  Excess' = Excess
<1>1. Staked(requests', nextReqID')
        = Staked(requests, nextReqID) + LockedFor(row) - LockedFor(requests[i])
  BY StakedWithOneWritten
<1>2. Bonded(services', nextSvcID') = Bonded(services, nextSvcID)
  BY DEF registry
<1>3. LockedFor(row) \in Nat /\ LockedFor(requests[i]) \in Nat
  BY Parts, LockedForType
<1>4. Held' = Held + LockedFor(row) - LockedFor(requests[i])
  BY <1>1, <1>2, <1>3, HeldType DEF Held
<1> QED BY <1>3, <1>4, HeldType DEF Excess, Held

(* A transaction that writes one service.                                  *)
LEMMA ServiceStepExact ==
  ASSUME WellFormed, NEW s \in DOMAIN services, NEW row \in Service,
         services' = Put(services, s, row),
         UNCHANGED <<nextSvcID, requests, nextReqID>>,
         balances'[Escrow] = balances[Escrow] + row.bond - services[s].bond,
         balances'[Escrow] \in Nat
  PROVE  Excess' = Excess
<1>1. Bonded(services', nextSvcID')
        = Bonded(services, nextSvcID) + row.bond - services[s].bond
  BY BondedWithOneWritten
<1>2. Staked(requests', nextReqID') = Staked(requests, nextReqID)
  OBVIOUS
<1>3. row.bond \in Nat /\ services[s].bond \in Nat
  BY Parts DEF Service
<1>4. Held' = Held + row.bond - services[s].bond
  BY <1>1, <1>2, <1>3, HeldType DEF Held
<1> QED BY <1>3, <1>4, HeldType DEF Excess, Held

LEMMA RegisterServiceExact ==
  ASSUME WellFormed, WellFormed', NEW u \in Users, NEW name \in Names,
         NEW price \in Prices, NEW d \in 0..MaxDomains, RegisterService(u, name, price, d)
  PROVE  Excess' = Excess
<1> DEFINE row == [ owner |-> u, name |-> name, price |-> price,
                    active |-> TRUE, createdAt |-> height, domain |-> d,
                    bond |-> ServiceRegistrationBond ]
<1>1. /\ row \in Service
      /\ row.bond = ServiceRegistrationBond
  BY ParamsAreNat, InputsAreNat, BoundsAreNat DEF Service, WellFormed, TypeOK
<1>2. /\ Lock(u, ServiceRegistrationBond)
      /\ services' = Put(services, nextSvcID, row)
      /\ nextSvcID' = nextSvcID + 1
      /\ UNCHANGED <<requests, nextReqID>>
  BY DEF RegisterService, Registrable
<1> HIDE DEF row
<1>3. balances'[Escrow] = balances[Escrow] + ServiceRegistrationBond
  BY <1>2, LockEffect, ParamsAreNat DEF WellFormed, TypeOK
<1>4. Bonded(services', nextSvcID') = Bonded(services, nextSvcID) + ServiceRegistrationBond
  BY <1>1, <1>2, BondedWithOneMore
<1>5. Staked(requests', nextReqID') = Staked(requests, nextReqID)
  BY <1>2
<1> QED BY <1>3, <1>4, <1>5, HeldType, ParamsAreNat DEF Excess, Held

LEMMA UpdateServiceExact ==
  ASSUME WellFormed, NEW u \in Users, NEW s, NEW price \in Prices,
         UpdateService(u, s, price)
  PROVE  Excess' = Excess
<1> DEFINE row == [services[s] EXCEPT !.price = price]
<1>1. /\ s \in DOMAIN services
      /\ services' = [services EXCEPT ![s].price = price]
      /\ UNCHANGED <<balances, nextSvcID, requests, nextReqID>>
  BY DEF UpdateService, Updatable
<1>2. services[s] \in Service
  BY <1>1, Parts
<1>3. row \in Service /\ row.bond = services[s].bond /\ row.bond \in Nat
  BY <1>2, InputsAreNat DEF Service
<1>4. services' = Put(services, s, row)
  BY <1>1, Parts DEF Put, WellFormed, TypeOK
<1> HIDE DEF row
<1> QED BY <1>1, <1>3, <1>4, ServiceStepExact, HeldType

LEMMA DeactivateServiceExact ==
  ASSUME WellFormed, WellFormed', NEW u \in Users, NEW s, DeactivateService(u, s)
  PROVE  Excess' = Excess
<1> DEFINE bond == services[s].bond
           goes == IF BondRefundable(services[s]) THEN u ELSE Treasury
           credit == [a \in Addresses |-> Due(a = goes, bond)]
           row == Closed(services[s])
<1>1. /\ s \in DOMAIN services
      /\ Release(bond, credit)
      /\ services' = Put(services, s, row)
      /\ UNCHANGED <<nextSvcID, requests, nextReqID>>
  BY DEF DeactivateService
<1>2. bond \in Nat /\ services[s] \in Service
  BY <1>1, Parts
<1>3. credit \in [Addresses -> Nat]
  BY <1>2, DueType
<1>4. row \in Service /\ row.bond = 0
  BY <1>2, ClosedType DEF Closed, Service
<1>5. balances'[Escrow] = balances[Escrow] - bond
  <2>1. credit[Escrow] = 0
    BY AddressesDistinct DEF Due, Addresses
  <2> HIDE DEF bond, credit, row
  <2> QED BY <1>1, <1>2, <1>3, <2>1, ReleaseExact
<1> HIDE DEF bond, credit, row
<1>6. balances'[Escrow] \in Nat
  BY DEF WellFormed, TypeOK, Addresses
<1>7. balances'[Escrow] = balances[Escrow] + row.bond - services[s].bond
  BY <1>2, <1>4, <1>5, <1>6, HeldType DEF bond
<1> QED BY <1>1, <1>4, <1>6, <1>7, ServiceStepExact

LEMMA TransferAdds ==
  ASSUME WellFormed, NEW u \in Users, NEW to \in Addresses,
         NEW amount \in TransferAmounts, Transfer(u, to, amount)
  PROVE  Excess' >= Excess /\ UNCHANGED <<requests, services>>
<1>1. /\ balances' = [balances EXCEPT ![u] = @ - amount, ![to] = @ + amount]
      /\ UNCHANGED <<requests, nextReqID, registry>>
  BY DEF Transfer
<1>2. /\ u # Escrow /\ Escrow \in Addresses
      /\ amount \in Nat
      /\ balances \in [Addresses -> Nat]
  BY AddressesDistinct, InputsAreNat DEF WellFormed, TypeOK, Addresses
<1>3. balances'[Escrow] >= balances[Escrow] /\ balances'[Escrow] \in Nat
  BY <1>1, <1>2
<1>4. Held' = Held
  BY <1>1 DEF Held, registry
<1> QED BY <1>1, <1>3, <1>4, HeldType DEF Excess, Held, registry

LEMMA RequestInferenceExact ==
  ASSUME WellFormed, WellFormed', NEW u \in Users, NEW s, NEW maxPrice,
         NEW d, NEW in, RequestInference(u, s, maxPrice, d, in)
  PROVE  Excess' = Excess
<1> DEFINE deadline == IF d = 0 THEN height + MaxRequestDeadlineBlocks ELSE d
           row == [ service |-> s, requester |-> u, inputHash |-> in,
                    escrow |-> services[s].price, deadline |-> deadline,
                    status |-> "PENDING", submittedAt |-> 0,
                    outputHash |-> NoOutput, providerBond |-> 0,
                    challenges |-> << >>, vouchers |-> {} ]
<1>1. /\ s \in DOMAIN services
      /\ Lock(u, services[s].price)
      /\ requests' = Put(requests, nextReqID, row)
      /\ nextReqID' = nextReqID + 1
      /\ UNCHANGED <<height, registry>>
  BY DEF RequestInference
<1> HIDE DEF deadline
<1>2. row.escrow = services[s].price /\ row.status = "PENDING"
  OBVIOUS
<1> HIDE DEF row
<1>3. services[s].price \in Nat
  BY <1>1, Parts DEF Service
<1>4. requests'[nextReqID] = row /\ nextReqID \in DOMAIN requests'
  BY <1>1 DEF Put
<1>5. row \in Request /\ MatchesStatus(row)
  <2>1. row \in Request
    BY <1>4 DEF WellFormed, TypeOK
  <2>2. \A k \in DOMAIN requests' : MatchesStatus(requests'[k])
    BY <1>1 DEF WellFormed, RecordsMatchStatus, MatchesStatus, registry
  <2> QED BY <2>1, <2>2, <1>4
<1>6. Staked(requests', nextReqID') = Staked(requests, nextReqID) + services[s].price
  <2>1. LockedFor(row) = services[s].price
    BY <1>2, <1>5, LockedForByStatus
  <2> QED BY <2>1, <1>1, <1>5, StakedWithOneMore
<1>7. balances'[Escrow] = balances[Escrow] + services[s].price
  BY <1>1, <1>3, LockEffect DEF WellFormed, TypeOK
<1>8. Bonded(services', nextSvcID') = Bonded(services, nextSvcID)
  BY <1>1 DEF registry
<1> QED BY <1>3, <1>6, <1>7, <1>8, HeldType DEF Excess, Held

LEMMA SubmittedHolds ==
  ASSUME WellFormed, NEW i \in DOMAIN requests, requests[i].status = "PENDING",
         NEW out \in Outputs
  PROVE  LockedFor(Submitted(requests[i], out)) = LockedFor(requests[i]) + ProviderBondAmount
<1> DEFINE r == requests[i]
           row == Submitted(r, out)
<1>1. r \in Request /\ MatchesStatus(r)
  BY Parts
<1>2. row \in Request /\ MatchesStatus(row)
  BY SubmittedWellFormed
<1>3. /\ row.status = "SUBMITTED" /\ row.escrow = r.escrow
      /\ row.providerBond = ProviderBondAmount
  BY <1>1 DEF Submitted, Request
<1> HIDE DEF row
<1>4. LockedFor(row) = r.escrow + ProviderBondAmount
  BY <1>2, <1>3, LockedForByStatus
<1>5. LockedFor(r) = r.escrow
  BY <1>1, LockedForByStatus
<1> QED BY <1>4, <1>5 DEF row

LEMMA SubmitResultExact ==
  ASSUME WellFormed, WellFormed', NEW u \in Users, NEW i, NEW att,
         NEW out \in Outputs, SubmitResult(u, i, att, out)
  PROVE  Excess' = Excess
<1> DEFINE row == Submitted(requests[i], out)
<1>1. /\ i \in DOMAIN requests
      /\ requests[i].status = "PENDING"
      /\ Lock(u, ProviderBondAmount)
      /\ requests' = Put(requests, i, row)
      /\ UNCHANGED <<nextReqID, registry>>
  BY DEF SubmitResult, Submittable
<1>2. row \in Request /\ MatchesStatus(row)
  BY <1>1, SubmittedWellFormed
<1>3. LockedFor(row) = LockedFor(requests[i]) + ProviderBondAmount
  BY <1>1, SubmittedHolds
<1> HIDE DEF row
<1>4. balances'[Escrow] = balances[Escrow] + ProviderBondAmount /\ balances'[Escrow] \in Nat
  BY <1>1, LockEffect, BondsAreNat DEF WellFormed, TypeOK, Addresses
<1>5. LockedFor(requests[i]) \in Nat
  BY <1>1, Parts, LockedForType
<1>6. balances'[Escrow] = balances[Escrow] + LockedFor(row) - LockedFor(requests[i])
  BY <1>3, <1>4, <1>5, HeldType, BondsAreNat
<1> QED BY <1>1, <1>2, <1>4, <1>6, RequestStepExact

LEMMA SubmitAndFinalizeExact ==
  ASSUME WellFormed, WellFormed', NEW u \in Users, NEW i, NEW att,
         NEW out \in Outputs, SubmitAndFinalize(u, i, att, out)
  PROVE  Excess' = Excess
<1> DEFINE r == Submitted(requests[i], out)
           f == Finalize(r, u)
           row == [r EXCEPT !.status = f.status]
<1>1. /\ i \in DOMAIN requests
      /\ requests[i].status = "PENDING"
      /\ balances' = [balances EXCEPT
                         ![u] = @ - ProviderBondAmount + f.credit[u],
                         ![Escrow] = @ + ProviderBondAmount - f.debit]
      /\ requests' = Put(requests, i, row)
      /\ UNCHANGED <<nextReqID, registry>>
  BY DEF SubmitAndFinalize, Submittable
<1>2. /\ r \in Request /\ MatchesStatus(r)
      /\ LockedFor(r) = LockedFor(requests[i]) + ProviderBondAmount
  BY <1>1, SubmittedWellFormed, SubmittedHolds
<1>3. r.status = "SUBMITTED"
  BY <1>1, Parts DEF Submitted, Request
<1> HIDE DEF r
<1>4. f.debit = LockedFor(r)
  BY <1>2, <1>3, DebitsWhatIsHeld
<1>5. f.status = "FINALIZED"
  BY DEF Finalize
<1> HIDE DEF f
<1>6. row \in Request /\ MatchesStatus(row) /\ LockedFor(row) = 0
  <2>1. row \in Request /\ MatchesStatus(row)
    BY <1>2, <1>5, SettledWellFormed DEF TerminalStatuses
  <2>2. row.status = "FINALIZED"
    BY <1>2, <1>5 DEF Request
  <2> QED BY <2>1, <2>2, LockedForByStatus DEF TerminalStatuses
<1> HIDE DEF row
<1>7. LockedFor(requests[i]) \in Nat
  BY <1>1, Parts, LockedForType
<1>8. balances'[Escrow] = balances[Escrow] + ProviderBondAmount - f.debit /\ balances'[Escrow] \in Nat
  BY <1>1, AddressesDistinct DEF WellFormed, TypeOK, Addresses
<1>9. balances'[Escrow] = balances[Escrow] + LockedFor(row) - LockedFor(requests[i])
  BY <1>2, <1>4, <1>6, <1>7, <1>8, HeldType, BondsAreNat
<1> QED BY <1>1, <1>6, <1>8, <1>9, RequestStepExact

LEMMA FileChallengeExact ==
  ASSUME WellFormed, WellFormed', NEW u \in Users, NEW i,
         NEW att \in Attestation, FileChallenge(u, i, att)
  PROVE  Excess' = Excess
<1> DEFINE r == requests[i]
           c == [ challenger |-> u, postedAt |-> height,
                  outputHash |-> att.outputHash, bond |-> ChallengerBondAmount ]
           row == [r EXCEPT !.status = "CHALLENGED", !.challenges = Append(@, c)]
<1>1. /\ i \in DOMAIN requests
      /\ r.status = "SUBMITTED"
      /\ Lock(u, ChallengerBondAmount)
      /\ requests' = Put(requests, i, row)
      /\ UNCHANGED <<nextReqID, registry>>
  BY DEF FileChallenge, Challengeable
<1>2. r \in Request /\ MatchesStatus(r) /\ r.escrow \in Nat /\ r.providerBond \in Nat
  BY <1>1, Parts, RequestParts
<1>3. c \in Challenge /\ c.bond = ChallengerBondAmount
  BY BondsAreNat DEF Challenge, Attestation, WellFormed, TypeOK
<1> HIDE DEF c
<1>4. r.challenges = << >> /\ r.vouchers = {}
  BY <1>1, <1>2 DEF MatchesStatus
<1>5. Append(<< >>, c)[1] = c
  BY <1>3, AppendToEmpty
<1>6. /\ row.status = "CHALLENGED" /\ row.escrow = r.escrow
      /\ row.providerBond = r.providerBond /\ row.challenges[1] = c
      /\ row.vouchers = {}
  BY <1>2, <1>4, <1>5 DEF Request
<1>7. row \in Request /\ MatchesStatus(row)
  <2>1. requests'[i] = row /\ i \in DOMAIN requests'
    BY <1>1 DEF Put
  <2>2. row \in Request
    BY <2>1 DEF WellFormed, TypeOK
  <2>3. MatchesStatus(requests'[i])
    BY <1>1, <2>1 DEF WellFormed, RecordsMatchStatus, MatchesStatus, registry
  <2> QED BY <2>1, <2>2, <2>3
<1> HIDE DEF row
<1>8. LockedFor(row) = r.escrow + r.providerBond + ChallengerBondAmount
  <2>1. VoucherBond(row) * Cardinality(row.vouchers) = 0
    BY <1>6, <1>7, RequestParts, FS_EmptySet
  <2>2. LockedFor(row) = row.escrow + row.providerBond + row.challenges[1].bond
                           + VoucherBond(row) * Cardinality(row.vouchers)
    BY <1>6, <1>7, LockedForByStatus
  <2>3. row.challenges[1].bond = ChallengerBondAmount
    BY <1>3, <1>6
  <2> QED BY <1>2, <1>6, <2>1, <2>2, <2>3, BondsAreNat
<1>9. LockedFor(r) = r.escrow + r.providerBond
  BY <1>1, <1>2, LockedForByStatus
<1>10. balances'[Escrow] = balances[Escrow] + ChallengerBondAmount /\ balances'[Escrow] \in Nat
  BY <1>1, LockEffect, BondsAreNat DEF WellFormed, TypeOK, Addresses
<1>11. balances'[Escrow] = balances[Escrow] + LockedFor(row) - LockedFor(requests[i])
  BY <1>2, <1>8, <1>9, <1>10, HeldType, BondsAreNat
<1> QED BY <1>1, <1>7, <1>10, <1>11, RequestStepExact

LEMMA VouchExact ==
  ASSUME WellFormed, WellFormed', NEW u \in Users, NEW i, NEW att, Vouch(u, i, att)
  PROVE  Excess' = Excess
<1> DEFINE r == requests[i]
           v == [voucher |-> u, supportsProvider |-> att.outputHash = r.outputHash]
           row == [r EXCEPT !.vouchers = @ \cup {v}]
           vb == VoucherBond(r)
<1>1. /\ i \in DOMAIN requests
      /\ r.status = "CHALLENGED"
      /\ ~HasVouched(u, r)
      /\ Lock(u, vb)
      /\ requests' = Put(requests, i, row)
      /\ UNCHANGED <<nextReqID, registry>>
  BY DEF Vouch, Vouchable
<1>2. /\ r \in Request /\ MatchesStatus(r) /\ r.challenges # << >>
      /\ r.vouchers \in SUBSET Voucher
      /\ r.escrow \in Nat /\ r.providerBond \in Nat /\ vb \in Nat
      /\ r.challenges[1].bond \in Nat
  BY <1>1, Parts, RequestParts
<1>3. v \notin r.vouchers
  BY <1>1 DEF HasVouched
<1> HIDE DEF v
<1>4. Cardinality(r.vouchers \cup {v}) = Cardinality(r.vouchers) + 1
  BY <1>2, <1>3, VouchersFinite, FS_AddElement
<1>5. Cardinality(r.vouchers) \in Nat
  BY <1>2, SidesPartition
<1>6. vb * (Cardinality(r.vouchers) + 1) = vb * Cardinality(r.vouchers) + vb
  BY <1>2, <1>5, NatTimesSum
<1>7. /\ row.status = "CHALLENGED" /\ row.escrow = r.escrow
      /\ row.providerBond = r.providerBond /\ row.challenges = r.challenges
      /\ row.vouchers = r.vouchers \cup {v}
  BY <1>1, <1>2 DEF Request
<1>8. row \in Request /\ MatchesStatus(row)
  <2>1. requests'[i] = row /\ i \in DOMAIN requests'
    BY <1>1 DEF Put
  <2>2. requests'[i] \in Request
    BY <2>1 DEF WellFormed, TypeOK
  <2>3. MatchesStatus(requests'[i])
    BY <1>1, <2>1 DEF WellFormed, RecordsMatchStatus, MatchesStatus, registry
  <2> HIDE DEF row
  <2> QED BY <2>1, <2>2, <2>3
<1>9. VoucherBond(row) = vb
  BY <1>7 DEF VoucherBond
<1> HIDE DEF row, vb
<1>10. LockedFor(row) = r.escrow + r.providerBond + r.challenges[1].bond
                          + vb * (Cardinality(r.vouchers) + 1)
  BY <1>4, <1>7, <1>8, <1>9, LockedForByStatus
<1>11. LockedFor(r) = r.escrow + r.providerBond + r.challenges[1].bond
                        + vb * Cardinality(r.vouchers)
  BY <1>1, <1>2, LockedForByStatus DEF vb
<1>12. vb * Cardinality(r.vouchers) \in Nat
  BY <1>2, <1>5, NatTimes
<1>13. LockedFor(row) = LockedFor(r) + vb
  BY <1>2, <1>6, <1>10, <1>11, <1>12
<1>14. balances'[Escrow] = balances[Escrow] + vb /\ balances'[Escrow] \in Nat
  BY <1>1, <1>2, LockEffect DEF WellFormed, TypeOK, Addresses
<1>15. LockedFor(r) \in Nat
  BY <1>2, LockedForType
<1>16. balances'[Escrow] = balances[Escrow] + LockedFor(row) - LockedFor(requests[i])
  BY <1>2, <1>13, <1>14, <1>15, HeldType
<1> QED BY <1>1, <1>8, <1>14, <1>16, RequestStepExact

LEMMA ResolveChallengeExact ==
  ASSUME WellFormed, WellFormed', NEW u \in Users, NEW i, NEW decision,
         ResolveChallenge(u, i, decision)
  PROVE  Excess' = Excess
<1> DEFINE r == requests[i]
           out == IF decision = "dismiss" THEN Dismiss(r, Owner(r)) ELSE Slash(r)
           row == [r EXCEPT !.status = out.status]
<1>1. /\ i \in DOMAIN requests
      /\ r.status = "CHALLENGED"
      /\ Release(out.debit, out.credit)
      /\ requests' = Put(requests, i, row)
      /\ UNCHANGED <<nextReqID, registry>>
  BY DEF ResolveChallenge
<1>2. r \in Request /\ MatchesStatus(r) /\ r.challenges # << >>
  BY <1>1, Parts
<1>3. out \in Settlements
  BY <1>2, DismissType, SlashType
<1>4. out.debit = LockedFor(r) /\ out.credit[Escrow] = 0
  BY <1>1, <1>2, Parts, DebitsWhatIsHeld, NothingToEscrow
<1>5. out.status \in TerminalStatuses
  BY DEF Dismiss, Slash, TerminalStatuses
<1> HIDE DEF out
<1>6. row \in Request /\ MatchesStatus(row) /\ LockedFor(row) = 0
  <2>1. row \in Request /\ MatchesStatus(row)
    BY <1>2, <1>5, SettledWellFormed
  <2>2. row.status = out.status
    BY <1>2 DEF Request
  <2> QED BY <1>5, <2>1, <2>2, LockedForByStatus
<1> HIDE DEF row
<1>7. LockedFor(r) \in Nat
  BY <1>2, LockedForType
<1>8. /\ balances'[Escrow] = balances[Escrow] - out.debit
      /\ balances'[Escrow] \in Nat
  BY <1>1, <1>3, <1>4, ReleaseExact DEF WellFormed, TypeOK, Settlements, Addresses
<1>9. balances'[Escrow] = balances[Escrow] + LockedFor(row) - LockedFor(requests[i])
  BY <1>4, <1>6, <1>7, <1>8, HeldType
<1> QED BY <1>1, <1>6, <1>8, <1>9, RequestStepExact

(* Many requests settled by one step: a cascade, or a block.               *)
LEMMA SettledHoldsNothing ==
  ASSUME NEW r \in Request, MatchesStatus(r), NEW st \in TerminalStatuses
  PROVE  LockedFor([r EXCEPT !.status = st]) = 0
<1> DEFINE row == [r EXCEPT !.status = st]
<1>1. row \in Request /\ MatchesStatus(row)
  BY SettledWellFormed
<1>2. row.status = st
  BY DEF Request
<1> HIDE DEF row
<1>3. LockedFor(row) = 0
  BY <1>1, <1>2, LockedForByStatus
<1> QED BY <1>3 DEF row

LEMMA LockedForAllType ==
  ASSUME WellFormed
  PROVE  \A i \in DOMAIN requests : LockedFor(requests[i]) \in Nat
BY Parts, LockedForType

LEMMA StakedAfterSettling ==
  ASSUME WellFormed, WellFormed', nextReqID' = nextReqID, NEW debit,
         \A i \in DOMAIN requests :
            debit[i] \in Int /\ LockedFor(requests[i]) = debit[i] + LockedFor(requests'[i])
  PROVE  Staked(requests, nextReqID)
           = SumTo(debit, nextReqID - 1) + Staked(requests', nextReqID')
<1> DEFINE f == [i \in DOMAIN requests' |-> LockedFor(requests'[i])]
           g == [i \in DOMAIN requests |-> LockedFor(requests[i])]
           n == nextReqID - 1
<1>1. n \in Nat /\ DOMAIN requests = 1..n
  BY Parts
<1>2. DOMAIN requests' = 1..n
  BY DEF WellFormed, TypeOK
<1>3. \A i \in 1..n : LockedFor(requests'[i]) \in Int
  <2>1. (WellFormed => \A i \in DOMAIN requests : LockedFor(requests[i]) \in Nat)'
    BY LockedForAllType, PTL
  <2> QED BY <1>2, <2>1
<1>4. \A i \in 1..n : debit[i] \in Int /\ f[i] \in Int /\ g[i] = debit[i] + f[i]
  BY <1>1, <1>2, <1>3
<1>5. /\ Staked(requests, nextReqID) = SumTo(g, n)
      /\ Staked(requests', nextReqID') = SumTo(f, n)
  BY DEF Staked
<1> HIDE DEF f, g, n
<1>6. SumTo(g, n) = SumTo(debit, n) + SumTo(f, n)
  BY <1>1, <1>4, SumAdd
<1> QED BY <1>5, <1>6 DEF n

LEMMA NextHeldType ==
  ASSUME WellFormed'
  PROVE  /\ Staked(requests', nextReqID') \in Nat
         /\ Bonded(services', nextSvcID') \in Nat
         /\ balances'[Escrow] \in Nat
<1>1. (WellFormed => /\ Staked(requests, nextReqID) \in Nat
                     /\ Bonded(services, nextSvcID) \in Nat
                     /\ balances[Escrow] \in Nat)'
  BY HeldType, PTL
<1> QED BY <1>1

LEMMA OutcomeDebits ==
  ASSUME WellFormed, NEW i \in DOMAIN requests, NEW h
  PROVE  LET out == Outcome(requests[i], h)
         IN  /\ out.debit \in Nat /\ out.credit[Escrow] = 0
             /\ LockedFor(requests[i])
                  = out.debit + LockedFor([requests[i] EXCEPT !.status = out.status])
<1> DEFINE r == requests[i]
           owner == Owner(r)
           Exact(out) == /\ out.debit = LockedFor(r) /\ out.credit[Escrow] = 0
                         /\ LockedFor([r EXCEPT !.status = out.status]) = 0
<1>1. /\ r \in Request /\ MatchesStatus(r) /\ LockedFor(r) \in Nat
      /\ owner \in Users
      /\ r.status = "CHALLENGED" => r.challenges # << >>
  BY Parts, LockedForType
<1>2. /\ LockedFor([r EXCEPT !.status = "REFUNDED"]) = 0
      /\ LockedFor([r EXCEPT !.status = "FINALIZED"]) = 0
      /\ LockedFor([r EXCEPT !.status = "SLASHED"]) = 0
  BY <1>1, SettledHoldsNothing DEF TerminalStatuses
<1>3. /\ Refund(r).status = "REFUNDED"
      /\ Finalize(r, owner).status = "FINALIZED"
      /\ Dismiss(r, owner).status = "FINALIZED"
      /\ Slash(r).status = "SLASHED"
  BY DEF Refund, Finalize, Dismiss, Slash
<1>4. RefundDue(r, h) => Exact(Refund(r))
  BY <1>1, <1>2, <1>3, DebitsWhatIsHeld, NothingToEscrow DEF RefundDue
<1>5. FinalizeDue(r, h) => Exact(Finalize(r, owner))
  BY <1>1, <1>2, <1>3, DebitsWhatIsHeld, NothingToEscrow DEF FinalizeDue
<1>6. ResolveDue(r, h) => Exact(Dismiss(r, owner)) /\ Exact(Slash(r))
  BY <1>1, <1>2, <1>3, DebitsWhatIsHeld, NothingToEscrow DEF ResolveDue
<1>7. /\ LeftAlone(r).debit = 0 /\ LeftAlone(r).credit[Escrow] = 0
      /\ [r EXCEPT !.status = LeftAlone(r).status] = r
  BY <1>1 DEF LeftAlone, Request, Addresses
<1>8. Exact(Outcome(r, h)) \/ Outcome(r, h) = LeftAlone(r)
  <2> HIDE DEF Exact, owner
  <2>1. owner = Owner(r)
    BY DEF owner
  <2> HIDE DEF r
  <2> QED BY <1>4, <1>5, <1>6, <2>1 DEF Outcome
<1> QED BY <1>1, <1>7, <1>8

LEMMA CommitBlockExact ==
  ASSUME WellFormed, WellFormed', CommitBlock
  PROVE  Excess' = Excess
<1> DEFINE out == [i \in DOMAIN requests |-> Outcome(requests[i], height + 1)]
           debit == [i \in DOMAIN requests |-> out[i].debit]
           credit(a) == [i \in DOMAIN requests |-> out[i].credit[a]]
           got  == [a \in Addresses |-> SumTo(credit(a), nextReqID - 1)]
<1>1. /\ Release(SumTo(debit, nextReqID - 1), got)
      /\ requests' = [i \in DOMAIN requests |-> [requests[i] EXCEPT !.status = out[i].status]]
      /\ UNCHANGED <<nextReqID, registry>>
  BY DEF CommitBlock
<1>2. ASSUME NEW i \in DOMAIN requests
      PROVE  /\ debit[i] \in Nat
             /\ LockedFor(requests[i]) = debit[i] + LockedFor(requests'[i])
             /\ \A a \in Addresses : credit(a)[i] \in Nat
             /\ credit(Escrow)[i] = 0
  <2>1. /\ out[i].debit \in Nat /\ out[i].credit[Escrow] = 0
        /\ LockedFor(requests[i])
             = out[i].debit + LockedFor([requests[i] EXCEPT !.status = out[i].status])
    BY OutcomeDebits
  <2>2. out[i] \in Settlements
    BY OutcomeType
  <2> HIDE DEF out
  <2>3. requests'[i] = [requests[i] EXCEPT !.status = out[i].status]
    BY <1>1
  <2> QED BY <2>1, <2>2, <2>3 DEF Settlements
<1> HIDE DEF debit, out
<1>3. SumTo(debit, nextReqID - 1) \in Nat
  BY <1>2, Parts, SumNat
<1>4. got \in [Addresses -> Nat]
  <2> SUFFICES ASSUME NEW a \in Addresses PROVE SumTo(credit(a), nextReqID - 1) \in Nat
    OBVIOUS
  <2> QED BY <1>2, Parts, SumNat
<1>5. balances'[Escrow] = balances[Escrow] - SumTo(debit, nextReqID - 1)
  <2>1. SumTo(credit(Escrow), nextReqID - 1) = 0
    BY <1>2, Parts, SumOfNothing
  <2>2. got[Escrow] = 0
    BY <2>1 DEF Addresses
  <2> HIDE DEF got
  <2> QED BY <1>1, <1>3, <1>4, <2>2, ReleaseExact
<1> HIDE DEF got
<1>6. Staked(requests, nextReqID) = SumTo(debit, nextReqID - 1) + Staked(requests', nextReqID')
  <2>1. \A i \in DOMAIN requests :
           debit[i] \in Int /\ LockedFor(requests[i]) = debit[i] + LockedFor(requests'[i])
    BY <1>2
  <2> QED BY <2>1, <1>1, StakedAfterSettling
<1>7. Bonded(services', nextSvcID') = Bonded(services, nextSvcID)
  BY <1>1 DEF registry
<1>8. balances'[Escrow] \in Nat /\ Staked(requests', nextReqID') \in Int
  BY <1>3, <1>6, HeldType, NextHeldType
<1> QED BY <1>3, <1>5, <1>6, <1>7, <1>8, HeldType DEF Excess, Held

LEMMA DeactivateDomainExact ==
  ASSUME WellFormed, WellFormed', NEW u \in Users, NEW d, DeactivateDomain(u, d)
  PROVE  Excess' = Excess
<1> DEFINE closing == {s \in BoundTo(d) : services[s].active}
           voided  == VoidedBy(d)
           out     == [i \in DOMAIN requests |-> Void(requests[i], Owner(requests[i]))]
           bond    == [s \in DOMAIN services |-> Due(s \in closing, services[s].bond)]
           refund(a) == [s \in DOMAIN services |-> Due(services[s].owner = a, bond[s])]
           debit   == [i \in DOMAIN requests |-> Due(i \in voided, out[i].debit)]
           credit(a) == [i \in DOMAIN requests |-> Due(i \in voided, out[i].credit[a])]
           paid    == SumTo(bond, nextSvcID - 1) + SumTo(debit, nextReqID - 1)
           got     == [a \in Addresses |-> SumTo(refund(a), nextSvcID - 1)
                                            + SumTo(credit(a), nextReqID - 1)]
<1>1. /\ Release(paid, got)
      /\ services' = [s \in DOMAIN services |->
                        IF s \in closing THEN Closed(services[s]) ELSE services[s]]
      /\ requests' = [i \in DOMAIN requests |->
                        IF i \in voided
                          THEN [requests[i] EXCEPT !.status = out[i].status]
                          ELSE requests[i]]
      /\ UNCHANGED <<nextSvcID, nextReqID>>
  BY DEF DeactivateDomain
<1>2. \A i \in voided : i \in DOMAIN requests /\ IsOpen(requests[i])
  BY DEF VoidedBy
<1> HIDE DEF closing, voided
<1>3. ASSUME NEW s \in DOMAIN services
      PROVE  /\ bond[s] \in Nat /\ \A a : refund(a)[s] \in Nat
             /\ services[s].bond = bond[s] + services'[s].bond
             /\ services'[s].bond \in Nat /\ refund(Escrow)[s] = 0
  <2>1. services[s] \in Service /\ services[s].bond \in Nat
    BY Parts
  <2>2. Closed(services[s]).bond = 0
    BY <2>1 DEF Closed, Service
  <2>3. services[s].owner # Escrow
    BY Parts, AddressesDistinct
  <2> QED BY <1>1, <2>1, <2>2, <2>3 DEF Due
<1>4. ASSUME NEW i \in DOMAIN requests
      PROVE  /\ debit[i] \in Nat /\ \A a \in Addresses : credit(a)[i] \in Nat
             /\ LockedFor(requests[i]) = debit[i] + LockedFor(requests'[i])
             /\ credit(Escrow)[i] = 0
  <2>1. requests[i] \in Request /\ MatchesStatus(requests[i])
    BY Parts
  <2>2. out[i] \in Settlements
    BY Parts, VoidType
  <2>3. out[i].debit \in Nat /\ \A a \in Addresses : out[i].credit[a] \in Nat
    BY <2>2 DEF Settlements
  <2>4. out[i].status = "REFUNDED" /\ out[i].credit[Escrow] = 0
    BY Parts, NothingToEscrow DEF Void
  <2>5. IsOpen(requests[i]) => out[i].debit = LockedFor(requests[i])
    BY <2>1, DebitsWhatIsHeld
  <2>6. LockedFor(requests[i]) \in Nat
    BY <2>1, LockedForType
  <2> HIDE DEF out
  <2>7. CASE i \in voided
    <3>1. LockedFor(requests'[i]) = 0
      BY <1>1, <2>1, <2>4, <2>7, SettledHoldsNothing DEF TerminalStatuses
    <3>2. debit[i] = out[i].debit
      BY <2>7 DEF Due
    <3> HIDE DEF debit
    <3> QED BY <1>2, <2>3, <2>4, <2>5, <2>6, <2>7, <3>1, <3>2, DueType DEF Due
  <2>8. CASE i \notin voided
    <3>1. requests'[i] = requests[i] /\ debit[i] = 0
      BY <1>1, <2>8 DEF Due
    <3> HIDE DEF debit
    <3> QED BY <2>3, <2>6, <2>8, <3>1, DueType DEF Due
  <2> QED BY <2>7, <2>8
<1> HIDE DEF bond, debit, out
<1>5. /\ SumTo(bond, nextSvcID - 1) \in Nat
      /\ SumTo(debit, nextReqID - 1) \in Nat
  BY <1>3, <1>4, Parts, SumNat
<1>6. got \in [Addresses -> Nat]
  <2> SUFFICES ASSUME NEW a \in Addresses
               PROVE  SumTo(refund(a), nextSvcID - 1) + SumTo(credit(a), nextReqID - 1) \in Nat
    OBVIOUS
  <2>1. SumTo(refund(a), nextSvcID - 1) \in Nat
    BY <1>3, Parts, SumNat
  <2>2. SumTo(credit(a), nextReqID - 1) \in Nat
    BY <1>4, Parts, SumNat
  <2> QED BY <2>1, <2>2
<1>7. paid \in Nat
  BY <1>5
<1>8. balances'[Escrow] = balances[Escrow] - paid
  <2> HIDE DEF refund
  <2>1. SumTo(refund(Escrow), nextSvcID - 1) = 0
    BY <1>3, Parts, SumOfNothing
  <2>2. SumTo(credit(Escrow), nextReqID - 1) = 0
    BY <1>4, Parts, SumOfNothing
  <2>3. got[Escrow] = 0
    BY <2>1, <2>2 DEF Addresses
  <2> HIDE DEF paid, got
  <2> QED BY <1>1, <1>6, <1>7, <2>3, ReleaseExact
<1> HIDE DEF got
<1>9. Staked(requests, nextReqID) = SumTo(debit, nextReqID - 1) + Staked(requests', nextReqID')
  <2>1. \A i \in DOMAIN requests :
           debit[i] \in Int /\ LockedFor(requests[i]) = debit[i] + LockedFor(requests'[i])
    BY <1>4
  <2> QED BY <2>1, <1>1, StakedAfterSettling
<1>10. Bonded(services, nextSvcID) = SumTo(bond, nextSvcID - 1) + Bonded(services', nextSvcID')
  <2> DEFINE f == [s \in DOMAIN services' |-> services'[s].bond]
             g == [s \in DOMAIN services |-> services[s].bond]
             n == nextSvcID - 1
  <2>1. n \in Nat /\ DOMAIN services = 1..n /\ DOMAIN services' = 1..n
    BY <1>1, Parts
  <2>2. \A s \in 1..n : bond[s] \in Int /\ f[s] \in Int /\ g[s] = bond[s] + f[s]
    BY <1>3, <2>1
  <2>3. /\ Bonded(services, nextSvcID) = SumTo(g, n)
        /\ Bonded(services', nextSvcID') = SumTo(f, n)
    BY <1>1 DEF Bonded
  <2> HIDE DEF f, g, n
  <2>4. SumTo(g, n) = SumTo(bond, n) + SumTo(f, n)
    BY <2>1, <2>2, SumAdd
  <2> QED BY <2>3, <2>4 DEF n
<1> QED BY <1>5, <1>8, <1>9, <1>10, HeldType, NextHeldType DEF Excess, Held

-----------------------------------------------------------------------------

LEMMA InitExact ==
  ASSUME Init
  PROVE  balances[Escrow] = 0 /\ Held = 0
<1>1. balances[Escrow] = 0
  BY AddressesDistinct DEF Init, Addresses
<1>2. nextReqID - 1 = 0 /\ nextSvcID - 1 = 0
  BY DEF Init
<1> QED BY <1>1, <1>2, SumEmpty DEF Held, Staked, Bonded

LEMMA NextExact ==
  ASSUME WellFormed, WellFormed', [Next]_vars
  PROVE  Excess' = Excess \/ (Excess' >= Excess /\ UNCHANGED <<requests, services>>)
<1>1. ASSUME NEW u \in Users, NEW margin, RegisterDomain(u, margin) PROVE Excess' = Excess
  BY <1>1 DEF RegisterDomain, MayRegisterDomain, Excess, Held
<1>2. ASSUME NEW u \in Users, Tx(u)
      PROVE  Excess' = Excess \/ (Excess' >= Excess /\ UNCHANGED <<requests, services>>)
  BY <1>1, <1>2, RegisterServiceExact, UpdateServiceExact, DeactivateServiceExact,
     DeactivateDomainExact, TransferAdds, RequestInferenceExact, SubmitResultExact,
     SubmitAndFinalizeExact, FileChallengeExact, VouchExact, ResolveChallengeExact
     DEF Tx
<1>3. CASE CommitBlock
  BY <1>3, CommitBlockExact
<1>4. CASE UNCHANGED vars
  BY <1>4 DEF vars, registry, Excess, Held
<1>5. CASE AtHorizon
  BY <1>4, <1>5 DEF AtHorizon
<1> QED BY <1>2, <1>3, <1>4, <1>5 DEF Next

LEMMA ExcessIsSurplus ==
  ASSUME WellFormed
  PROVE  Surplus = Excess /\ Excess \in Int
<1>1. TotalLocked = Held
  BY DEF TotalLocked, Held, Staked, Bonded
<1> QED BY <1>1, HeldType DEF Excess, Surplus, Held

LEMMA NextSurplus ==
  ASSUME WellFormed, WellFormed', [Next]_vars
  PROVE  /\ Surplus \in Int /\ Surplus' \in Int /\ Surplus' >= Surplus
         /\ Surplus' # Surplus => UNCHANGED <<requests, services>>
<1>1. (WellFormed => Surplus = Excess /\ Excess \in Int)'
  BY ExcessIsSurplus, PTL
<1> QED BY <1>1, ExcessIsSurplus, NextExact

(* The escrow account always covers every price and bond it holds, so no   *)
(* payout of a block, a cascade or a resolution fails for lack of funds.   *)
THEOREM EscrowAlwaysBacked == Spec => []EscrowBacked
<1>1. Init => EscrowBacked
  BY InitExact DEF EscrowBacked, Surplus, TotalLocked, Held, Staked, Bonded
<1>2. WellFormed /\ WellFormed' /\ EscrowBacked /\ [Next]_vars => EscrowBacked'
  BY NextSurplus DEF EscrowBacked
<1> QED BY <1>1, <1>2, AlwaysWellFormed, PTL DEF Spec

(* Beyond the stakes the account holds what was transferred to its address *)
(* and nothing else: no handler and no block leaves a coin behind in it,   *)
(* or takes one too many (debit, credit and burn of state.go).             *)
THEOREM SurplusComesFromTransfers == Spec => SurplusOnlyFromTransfers
<1>1. WellFormed /\ WellFormed' /\ [Next]_vars
        => [Surplus' # Surplus => /\ Surplus' > Surplus
                                  /\ UNCHANGED <<requests, services>>]_vars
  BY NextSurplus
<1> QED BY <1>1, AlwaysWellFormed, PTL DEF Spec, SurplusOnlyFromTransfers

-----------------------------------------------------------------------------
(***************************************************************************)
(* The marketplace, with its one pooled escrow account and its blocks that *)
(* settle many requests at once, implements EscrowPots, in which every     *)
(* request and every service has a pot of its own.                         *)
(***************************************************************************)

RequestPot(i) == <<"request", i>>
ServicePot(s) == <<"service", s>>

(* PartiesTo, with the owner of the service given. *)
PartiesWith(r, owner) ==
  {r.requester, owner}
    \cup {r.challenges[c].challenger : c \in DOMAIN r.challenges}
    \cup {v.voucher : v \in r.vouchers}

OwnerNext(r) == services'[r.service].owner

(* Every record has a pot. *)
PotsSuffice ==
  /\ \A i \in DOMAIN requests : RequestPot(i) \in PotIds
  /\ \A s \in DOMAIN services : ServicePot(s) \in PotIds

LEMMA PotsFinite == IsFiniteSet(PotIds)
<1>1. \A n \in Nat : IsFiniteSet(1..n)
  BY FS_Interval
<1>2. IsFiniteSet({"request"}) /\ IsFiniteSet({"service"})
  BY FS_Singleton
<1>3. IsFiniteSet({"request"} \X (1..MaxRequests)) /\ IsFiniteSet({"service"} \X (1..MaxServices))
  BY <1>1, <1>2, FS_Product, BoundsAreNat
<1> QED BY <1>3, FS_Union DEF PotIds

LEMMA PotNames ==
  /\ \A i, j : RequestPot(i) = RequestPot(j) => i = j
  /\ \A i, j : ServicePot(i) = ServicePot(j) => i = j
  /\ \A i, j : RequestPot(i) # ServicePot(j)
  /\ \A p \in PotIds : \/ \E i \in 1..MaxRequests : p = RequestPot(i)
                       \/ \E s \in 1..MaxServices : p = ServicePot(s)
  /\ \A i : RequestPot(i) \in PotIds <=> i \in 1..MaxRequests
  /\ \A s : ServicePot(s) \in PotIds <=> s \in 1..MaxServices
BY DEF PotIds, RequestPot, ServicePot

(* The mapping, record by record; before a step and after it. *)
LEMMA DealsNow ==
  /\ DOMAIN DealPot = PotIds /\ DOMAIN DealPhase = PotIds /\ DOMAIN DealParties = PotIds
  /\ DealPot = [p \in PotIds |-> DealPot[p]]
  /\ DealPhase = [p \in PotIds |-> DealPhase[p]]
  /\ DealParties = [p \in PotIds |-> DealParties[p]]
  /\ \A i : RequestPot(i) \in PotIds =>
       /\ DealPot[RequestPot(i)]
            = IF i \in DOMAIN requests THEN LockedFor(requests[i]) ELSE 0
       /\ DealPhase[RequestPot(i)]
            = IF i \in DOMAIN requests THEN RequestPhase(requests[i]) ELSE "unused"
       /\ DealParties[RequestPot(i)]
            = IF i \in DOMAIN requests THEN PartiesWith(requests[i], Owner(requests[i])) ELSE {}
  /\ \A s : ServicePot(s) \in PotIds =>
       /\ DealPot[ServicePot(s)]
            = IF s \in DOMAIN services THEN services[s].bond ELSE 0
       /\ DealPhase[ServicePot(s)]
            = IF s \in DOMAIN services THEN ServicePhase(services[s]) ELSE "unused"
       /\ DealParties[ServicePot(s)]
            = IF s \in DOMAIN services THEN {services[s].owner} ELSE {}
BY DEF DealPot, DealPhase, DealParties, PerDeal, RequestPot, ServicePot, BondOf, OwnerAlone,
       PartiesTo, PartiesWith, Owner, OwnerNext

LEMMA DealsNext ==
  /\ DealPot' = [p \in PotIds |-> DealPot'[p]]
  /\ DealPhase' = [p \in PotIds |-> DealPhase'[p]]
  /\ DealParties' = [p \in PotIds |-> DealParties'[p]]
  /\ \A i : RequestPot(i) \in PotIds =>
       /\ DealPot'[RequestPot(i)]
            = IF i \in DOMAIN requests' THEN LockedFor(requests'[i]) ELSE 0
       /\ DealPhase'[RequestPot(i)]
            = IF i \in DOMAIN requests' THEN RequestPhase(requests'[i]) ELSE "unused"
       /\ DealParties'[RequestPot(i)]
            = IF i \in DOMAIN requests' THEN PartiesWith(requests'[i], OwnerNext(requests'[i])) ELSE {}
  /\ \A s : ServicePot(s) \in PotIds =>
       /\ DealPot'[ServicePot(s)]
            = IF s \in DOMAIN services' THEN services'[s].bond ELSE 0
       /\ DealPhase'[ServicePot(s)]
            = IF s \in DOMAIN services' THEN ServicePhase(services'[s]) ELSE "unused"
       /\ DealParties'[ServicePot(s)]
            = IF s \in DOMAIN services' THEN {services'[s].owner} ELSE {}
BY DEF DealPot, DealPhase, DealParties, PerDeal, RequestPot, ServicePot, BondOf, OwnerAlone,
       PartiesTo, PartiesWith, Owner, OwnerNext

(* The parties alone. *)
LEMMA PartiesNow ==
  /\ \A i : RequestPot(i) \in PotIds /\ i \in DOMAIN requests =>
       DealParties[RequestPot(i)] = PartiesWith(requests[i], Owner(requests[i]))
  /\ \A i : RequestPot(i) \in PotIds /\ i \notin DOMAIN requests => DealParties[RequestPot(i)] = {}
  /\ \A s : ServicePot(s) \in PotIds /\ s \in DOMAIN services =>
       DealParties[ServicePot(s)] = {services[s].owner}
  /\ \A s : ServicePot(s) \in PotIds /\ s \notin DOMAIN services => DealParties[ServicePot(s)] = {}
BY DealsNow

LEMMA PartiesNext ==
  /\ \A i : RequestPot(i) \in PotIds /\ i \in DOMAIN requests' =>
       DealParties'[RequestPot(i)] = PartiesWith(requests'[i], OwnerNext(requests'[i]))
  /\ \A i : RequestPot(i) \in PotIds /\ i \notin DOMAIN requests' => DealParties'[RequestPot(i)] = {}
  /\ \A s : ServicePot(s) \in PotIds /\ s \in DOMAIN services' =>
       DealParties'[ServicePot(s)] = {services'[s].owner}
  /\ \A s : ServicePot(s) \in PotIds /\ s \notin DOMAIN services' => DealParties'[ServicePot(s)] = {}
BY DealsNext

-----------------------------------------------------------------------------
(* Sums of the mapped state: all wallets and all pots hold what there is.  *)

LEMMA WalletNow ==
  WellFormed =>
    /\ DealWallet \in [Addresses -> Int]
    /\ DealWallet[Escrow] = Excess
    /\ \A a \in Addresses : a # Escrow => DealWallet[a] = balances[a]
    /\ SumFunction(DealWallet) = Total - Held
<1> SUFFICES ASSUME WellFormed
             PROVE  /\ DealWallet \in [Addresses -> Int]
                    /\ DealWallet[Escrow] = Excess
                    /\ \A a \in Addresses : a # Escrow => DealWallet[a] = balances[a]
                    /\ SumFunction(DealWallet) = Total - Held
  OBVIOUS
<1>1. balances \in [Addresses -> Int] /\ Excess \in Int /\ Surplus = Excess /\ Held \in Int
  BY BalancesTyped, ExcessIsSurplus, HeldType DEF Held
<1>2. Escrow \in Addresses
  BY DEF Addresses
<1>3. /\ DealWallet \in [Addresses -> Int]
      /\ DealWallet[Escrow] = Excess
      /\ \A a \in Addresses : a # Escrow => DealWallet[a] = balances[a]
  BY <1>1, <1>2 DEF DealWallet
<1> DEFINE held == [a \in Addresses |-> IF a = Escrow THEN Held ELSE 0]
<1>4. held \in [Addresses -> Int] /\ SumFunction(held) = Held
  BY <1>1, <1>2, AddressesFinite, SumFunctionOne
<1>5. \A a \in Addresses : balances[a] = DealWallet[a] + held[a]
  BY <1>1, <1>3 DEF Excess
<1> HIDE DEF held
<1>6. SumFunction(balances) = SumFunction(DealWallet) + SumFunction(held)
  BY <1>1, <1>3, <1>4, <1>5, AddressesFinite, SumFunctionAdd
<1>7. SumFunction(DealWallet) \in Int
  BY <1>3, AddressesFinite, SumFunctionInt
<1> QED BY <1>1, <1>3, <1>4, <1>6, <1>7 DEF Total

LEMMA PotsNow ==
  WellFormed /\ PotsSuffice =>
    /\ DealPot \in [PotIds -> Nat]
    /\ SumFunction(DealPot) = Held
<1> SUFFICES ASSUME WellFormed, PotsSuffice
             PROVE  DealPot \in [PotIds -> Nat] /\ SumFunction(DealPot) = Held
  OBVIOUS
<1> DEFINE n == nextReqID - 1
           m == nextSvcID - 1
           rkey == [i \in 1..n |-> RequestPot(i)]
           skey == [s \in 1..m |-> ServicePot(s)]
           rpot == [p \in PotIds |-> IF \E i \in 1..n : p = rkey[i] THEN DealPot[p] ELSE 0]
           spot == [p \in PotIds |-> IF \E s \in 1..m : p = skey[s] THEN DealPot[p] ELSE 0]
<1>1. n \in Nat /\ m \in Nat /\ DOMAIN requests = 1..n /\ DOMAIN services = 1..m
  BY Parts
<1>2. /\ \A i \in 1..n : LockedFor(requests[i]) \in Nat
      /\ \A s \in 1..m : services[s].bond \in Nat
  BY <1>1, Parts, LockedForAllType
<1>3. /\ \A i \in 1..n : RequestPot(i) \in PotIds /\ DealPot[RequestPot(i)] = LockedFor(requests[i])
      /\ \A s \in 1..m : ServicePot(s) \in PotIds /\ DealPot[ServicePot(s)] = services[s].bond
  BY <1>1, DealsNow DEF PotsSuffice
<1> HIDE DEF n, m
<1>4. ASSUME NEW p \in PotIds
      PROVE  /\ DealPot[p] \in Nat
             /\ DealPot[p] = rpot[p] + spot[p]
             /\ rpot[p] \in Nat /\ spot[p] \in Nat
  <2>1. CASE \E i \in 1..MaxRequests : p = RequestPot(i)
    <3>1. PICK i \in 1..MaxRequests : p = RequestPot(i)
      BY <2>1
    <3>2. \A s \in 1..m : p # skey[s]
      BY <3>1, PotNames
    <3>3. spot[p] = 0
      BY <3>2
    <3>4. (\E k \in 1..n : p = rkey[k]) <=> i \in 1..n
      BY <3>1, PotNames
    <3>5. DealPot[p] = IF i \in 1..n THEN LockedFor(requests[i]) ELSE 0
      BY <1>1, <3>1, DealsNow
    <3>6. rpot[p] = DealPot[p]
      BY <3>4, <3>5
    <3> QED BY <1>2, <3>3, <3>5, <3>6
  <2>2. CASE \E s \in 1..MaxServices : p = ServicePot(s)
    <3>1. PICK s \in 1..MaxServices : p = ServicePot(s)
      BY <2>2
    <3>2. \A i \in 1..n : p # rkey[i]
      BY <3>1, PotNames
    <3>3. rpot[p] = 0
      BY <3>2
    <3>4. (\E k \in 1..m : p = skey[k]) <=> s \in 1..m
      BY <3>1, PotNames
    <3>5. DealPot[p] = IF s \in 1..m THEN services[s].bond ELSE 0
      BY <1>1, <3>1, DealsNow
    <3>6. spot[p] = DealPot[p]
      BY <3>4, <3>5
    <3> QED BY <1>2, <3>3, <3>5, <3>6
  <2> QED BY <2>1, <2>2, PotNames
<1>5. DealPot \in [PotIds -> Nat]
  BY <1>4, DealsNow
<1>6. rpot \in [PotIds -> Int] /\ spot \in [PotIds -> Int] /\ DealPot \in [PotIds -> Int]
  BY <1>4, <1>5
<1>7. SumFunction(DealPot) = SumFunction(rpot) + SumFunction(spot)
  <2> HIDE DEF rpot, spot
  <2> QED BY <1>4, <1>6, PotsFinite, SumFunctionAdd
<1>8. SumFunction(rpot) = Staked(requests, nextReqID)
  <2> DEFINE held == [i \in 1..n |-> DealPot[rkey[i]]]
  <2>0. n \in Nat /\ DealPot \in [PotIds -> Int] /\ rpot \in [PotIds -> Int]
    BY <1>1, <1>6
  <2>1. \A i \in 1..n : rkey[i] \in PotIds
    BY <1>3
  <2>2. \A i, j \in 1..n : rkey[i] = rkey[j] => i = j
    BY PotNames
  <2>3. \A p \in PotIds : rpot[p] = IF \E i \in 1..n : p = rkey[i] THEN DealPot[p] ELSE 0
    OBVIOUS
  <2>6. \A i \in 1..n : held[i] = DealPot[rkey[i]]
    OBVIOUS
  <2>4. held = [i \in DOMAIN requests |-> LockedFor(requests[i])]
    BY <1>1, <1>3
  <2> HIDE DEF rpot, rkey, held
  <2>5. SumFunction(rpot) = SumTo(held, n)
    BY ONLY <2>0, <2>1, <2>2, <2>3, <2>6, PotsFinite, SumOfNumbered
  <2> QED BY <2>4, <2>5 DEF Staked, n
<1>9. SumFunction(spot) = Bonded(services, nextSvcID)
  <2> DEFINE held == [s \in 1..m |-> DealPot[skey[s]]]
  <2>0. m \in Nat /\ DealPot \in [PotIds -> Int] /\ spot \in [PotIds -> Int]
    BY <1>1, <1>6
  <2>1. \A s \in 1..m : skey[s] \in PotIds
    BY <1>3
  <2>2. \A i, j \in 1..m : skey[i] = skey[j] => i = j
    BY PotNames
  <2>3. \A p \in PotIds : spot[p] = IF \E s \in 1..m : p = skey[s] THEN DealPot[p] ELSE 0
    OBVIOUS
  <2>6. \A s \in 1..m : held[s] = DealPot[skey[s]]
    OBVIOUS
  <2>4. held = [s \in DOMAIN services |-> services[s].bond]
    BY <1>1, <1>3
  <2> HIDE DEF spot, skey, held
  <2>5. SumFunction(spot) = SumTo(held, m)
    BY ONLY <2>0, <2>1, <2>2, <2>3, <2>6, PotsFinite, SumOfNumbered
  <2> QED BY <2>4, <2>5 DEF Bonded, m
<1> QED BY <1>5, <1>7, <1>8, <1>9 DEF Held

LEMMA MappedNext ==
  (/\ WellFormed =>
        /\ DealWallet \in [Addresses -> Int]
        /\ DealWallet[Escrow] = Excess
        /\ \A a \in Addresses : a # Escrow => DealWallet[a] = balances[a]
        /\ SumFunction(DealWallet) = Total - Held
   /\ WellFormed /\ PotsSuffice =>
        /\ DealPot \in [PotIds -> Nat]
        /\ SumFunction(DealPot) = Held)'
BY WalletNow, PotsNow, PTL

-----------------------------------------------------------------------------
(* Stakes: an account locks coins, and one record shows them.              *)

LEMMA LockPaysFromWallet ==
  ASSUME WellFormed, WellFormed', NEW u \in Users, NEW n \in Nat, Lock(u, n), Excess' = Excess
  PROVE  /\ DealWallet[u] >= n
         /\ DealWallet' = [DealWallet EXCEPT ![u] = @ - n]
         /\ balances'[Escrow] = balances[Escrow] + n
         /\ Held' = Held + n
<1>1. u # Escrow /\ u \in Addresses /\ Escrow \in Addresses
  BY AddressesDistinct DEF Addresses
<1>2. balances \in [Addresses -> Int] /\ Held \in Int
  BY BalancesTyped, HeldType DEF Held
<1>3. balances[u] >= n
  BY DEF Lock, Covers
<1>4. \A a \in Addresses : balances'[a] = IF a = u THEN balances[a] - n
                                         ELSE IF a = Escrow THEN balances[a] + n ELSE balances[a]
  BY <1>1, <1>2 DEF Lock
<1>5. /\ DealWallet \in [Addresses -> Int] /\ DealWallet[Escrow] = Excess
      /\ \A a \in Addresses : a # Escrow => DealWallet[a] = balances[a]
  BY WalletNow
<1>6. /\ DealWallet' \in [Addresses -> Int] /\ DealWallet'[Escrow] = Excess
      /\ \A a \in Addresses : a # Escrow => DealWallet'[a] = balances'[a]
  BY MappedNext
<1>7. \A a \in Addresses : DealWallet'[a] = IF a = u THEN DealWallet[a] - n ELSE DealWallet[a]
  BY <1>1, <1>4, <1>5, <1>6
<1>8. DealWallet' = [DealWallet EXCEPT ![u] = @ - n]
  BY <1>1, <1>5, <1>6, <1>7
<1>9. balances'[Escrow] = balances[Escrow] + n
  BY <1>1, <1>4
<1>10. Held' \in Int
  BY NextHeldType DEF Held
<1>11. Held' = Held + n
  BY <1>1, <1>2, <1>9, <1>10 DEF Excess
<1> QED BY <1>1, <1>3, <1>5, <1>8, <1>9, <1>11

(* A record of an open request gets a new row, with one more party.        *)
LEMMA RequestStake ==
  ASSUME WellFormed, WellFormed', PotsSuffice, NEW u \in Users, NEW n \in Nat, Lock(u, n),
         Excess' = Excess, NEW i \in DOMAIN requests, NEW row \in Request, MatchesStatus(row),
         IsOpen(requests[i]), IsOpen(row), row.service = requests[i].service,
         PartiesWith(row, Owner(requests[i])) = PartiesWith(requests[i], Owner(requests[i])) \cup {u},
         requests' = Put(requests, i, row), UNCHANGED <<nextReqID, services, nextSvcID>>
  PROVE  Deals!Stake(u, RequestPot(i))
<1> DEFINE q == RequestPot(i)
<1>1. q \in PotIds
  BY DEF PotsSuffice
<1>2. u \in Addresses
  BY DEF Addresses
<1>3. /\ DOMAIN requests' = DOMAIN requests
      /\ requests'[i] = row
      /\ \A k \in DOMAIN requests : k # i => requests'[k] = requests[k]
  BY DEF Put
<1>4. Held' = Held + LockedFor(row) - LockedFor(requests[i])
  <2>1. Staked(requests', nextReqID') = Staked(requests, nextReqID) + LockedFor(row) - LockedFor(requests[i])
    BY StakedWithOneWritten
  <2>2. Bonded(services', nextSvcID') = Bonded(services, nextSvcID)
    OBVIOUS
  <2>3. LockedFor(row) \in Nat /\ LockedFor(requests[i]) \in Nat
    BY LockedForType, Parts
  <2> QED BY <2>1, <2>2, <2>3, HeldType DEF Held
<1>5. LockedFor(row) = LockedFor(requests[i]) + n
  <2>1. LockedFor(row) \in Nat /\ LockedFor(requests[i]) \in Nat
    BY LockedForType, Parts
  <2>2. Held' = Held + n /\ Held \in Int
    BY LockPaysFromWallet, HeldType DEF Held
  <2> QED BY <1>4, <2>1, <2>2
<1>6. \A k \in DOMAIN requests : OwnerNext(requests'[k]) = IF k = i THEN Owner(requests[i]) ELSE Owner(requests[k])
  BY <1>3 DEF OwnerNext, Owner
<1>7. DealPhase[q] = "open"
  BY <1>1, DealsNow DEF RequestPhase
<1>8. ASSUME NEW p \in PotIds
      PROVE  /\ DealPot'[p] = IF p = q THEN DealPot[q] + n ELSE DealPot[p]
             /\ DealPhase'[p] = DealPhase[p]
             /\ DealParties'[p] = IF p = q THEN DealParties[q] \cup {u} ELSE DealParties[p]
  <2>1. CASE \E s \in 1..MaxServices : p = ServicePot(s)
    <3>1. PICK s \in 1..MaxServices : p = ServicePot(s)
      BY <2>1
    <3>2. p # q
      BY <3>1, PotNames
    <3>3. DealPot'[p] = DealPot[p] /\ DealPhase'[p] = DealPhase[p]
      BY <3>1, DealsNow, DealsNext
    <3>4. DealParties'[p] = DealParties[p]
      BY <3>1, PartiesNow, PartiesNext
    <3> QED BY <3>2, <3>3, <3>4
  <2>2. CASE \E k \in 1..MaxRequests : p = RequestPot(k)
    <3>1. PICK k \in 1..MaxRequests : p = RequestPot(k)
      BY <2>2
    <3>2. CASE k = i
      <4>1. p = q /\ k \in DOMAIN requests
        BY <3>1, <3>2
      <4>2. DealPot'[p] = DealPot[q] + n
        BY <1>3, <1>5, <3>1, <3>2, <4>1, DealsNow, DealsNext
      <4>3. DealPhase'[p] = "open"
        BY <1>3, <3>1, <3>2, <4>1, DealsNext DEF RequestPhase
      <4>4. DealParties'[p] = PartiesWith(row, Owner(requests[i]))
        BY <1>3, <1>6, <3>1, <3>2, <4>1, DealsNext
      <4>5. DealParties[q] = PartiesWith(requests[i], Owner(requests[i]))
        BY <3>1, <4>1, DealsNow
      <4>6. DealParties'[p] = DealParties[q] \cup {u}
        BY <4>4, <4>5
      <4> HIDE DEF q
      <4> QED BY ONLY <1>7, <4>1, <4>2, <4>3, <4>6
    <3>3. CASE k # i
      <4>1. p # q
        BY <3>1, <3>3, PotNames
      <4>2. k \in DOMAIN requests => requests'[k] = requests[k] /\ OwnerNext(requests'[k]) = Owner(requests[k])
        BY <1>3, <1>6, <3>3
      <4>3. DealPot'[p] = DealPot[p] /\ DealPhase'[p] = DealPhase[p]
        BY <1>3, <3>1, <4>2, DealsNow, DealsNext
      <4>4. DealParties'[p] = DealParties[p]
        <5>1. CASE k \in DOMAIN requests
          BY <1>3, <3>1, <4>2, <5>1, PartiesNow, PartiesNext
        <5>2. CASE k \notin DOMAIN requests
          BY <1>3, <3>1, <5>2, PartiesNow, PartiesNext
        <5> QED BY <5>1, <5>2
      <4> QED BY <4>1, <4>3, <4>4
    <3> QED BY <3>2, <3>3
  <2> QED BY <2>1, <2>2, PotNames
<1>9. /\ DealPot' = [DealPot EXCEPT ![q] = @ + n]
      /\ DealParties' = [DealParties EXCEPT ![q] = @ \cup {u}]
      /\ DealPhase' = DealPhase
  BY <1>1, <1>8, DealsNow, DealsNext
<1>10. DealPot[q] \in Nat
  BY <1>1, PotsNow
<1>11. DealPot'[q] - DealPot[q] = n
  BY <1>1, <1>8, <1>10
<1>12. DealWallet[u] >= n /\ DealWallet' = [DealWallet EXCEPT ![u] = @ - n]
  BY LockPaysFromWallet
<1> HIDE DEF q
<1>13. Deals!PutIn(u, q)
  <2>1. /\ DealPot'[q] - DealPot[q] >= 0
        /\ DealWallet[u] >= DealPot'[q] - DealPot[q]
    BY <1>11, <1>12
  <2>2. /\ DealWallet' = [DealWallet EXCEPT ![u] = @ - (DealPot'[q] - DealPot[q])]
        /\ DealPot' = [DealPot EXCEPT ![q] = @ + (DealPot'[q] - DealPot[q])]
    BY <1>9, <1>11, <1>12
  <2> QED BY <2>1, <2>2 DEF Deals!PutIn
<1> QED BY <1>7, <1>9, <1>13 DEF Deals!Stake, q
(* A new request, or a new service, takes a pot nobody used before.         *)
LEMMA RequestOpens ==
  ASSUME WellFormed, WellFormed', PotsSuffice, NEW u \in Users, NEW n \in Nat, Lock(u, n),
         Excess' = Excess, nextReqID <= MaxRequests, NEW row \in Request, MatchesStatus(row),
         IsOpen(row), row.service \in DOMAIN services,
         \A o : PartiesWith(row, o) = {u, o},
         requests' = Put(requests, nextReqID, row), nextReqID' = nextReqID + 1,
         UNCHANGED <<services, nextSvcID>>
  PROVE  Deals!Open(u, services[row.service].owner, RequestPot(nextReqID))
<1> DEFINE i == nextReqID
           q == RequestPot(i)
           owner == services[row.service].owner
<1>1. /\ DOMAIN requests = 1..i-1 /\ i \in Nat \ {0} /\ i \notin DOMAIN requests
      /\ i \in 1..MaxRequests
  BY Parts, BoundsAreNat DEF WellFormed, TypeOK
<1>2. q \in PotIds
  BY <1>1, PotNames
<1>3. /\ \A k : k \in DOMAIN requests' <=> k \in DOMAIN requests \/ k = i
      /\ requests'[i] = row
      /\ \A k \in DOMAIN requests : requests'[k] = requests[k]
  BY <1>1 DEF Put
<1>4. LockedFor(row) = n
  <2>1. Staked(requests', nextReqID') = Staked(requests, nextReqID) + LockedFor(row)
    BY StakedWithOneMore
  <2>2. Bonded(services', nextSvcID') = Bonded(services, nextSvcID)
    OBVIOUS
  <2>3. LockedFor(row) \in Nat
    BY LockedForType
  <2>4. Held' = Held + LockedFor(row)
    BY <2>1, <2>2, <2>3, HeldType DEF Held
  <2>5. Held' = Held + n /\ Held \in Int
    BY LockPaysFromWallet, HeldType DEF Held
  <2> QED BY <2>3, <2>4, <2>5
<1>5. /\ OwnerNext(requests'[i]) = owner
      /\ \A k \in DOMAIN requests : OwnerNext(requests'[k]) = Owner(requests[k])
  BY <1>3 DEF OwnerNext, Owner
<1> HIDE DEF i
<1>6. DealPhase[q] = "unused" /\ DealPot[q] = 0 /\ DealParties[q] = {}
  BY <1>1, <1>2, DealsNow
<1>7. ASSUME NEW p \in PotIds
      PROVE  /\ DealPot'[p] = IF p = q THEN n ELSE DealPot[p]
             /\ DealPhase'[p] = IF p = q THEN "open" ELSE DealPhase[p]
             /\ DealParties'[p] = IF p = q THEN {u, owner} ELSE DealParties[p]
  <2>1. CASE \E s \in 1..MaxServices : p = ServicePot(s)
    <3>1. PICK s \in 1..MaxServices : p = ServicePot(s)
      BY <2>1
    <3>2. p # q
      BY <3>1, PotNames
    <3>5. DealPot'[p] = DealPot[p]
      BY <3>1, DealsNow, DealsNext
    <3>6. DealPhase'[p] = DealPhase[p]
      BY <3>1, DealsNow, DealsNext
    <3>7. DealParties'[p] = DealParties[p]
      BY <3>1, PartiesNow, PartiesNext
    <3> QED BY <3>2, <3>5, <3>6, <3>7
  <2>2. CASE \E k \in 1..MaxRequests : p = RequestPot(k)
    <3>1. PICK k \in 1..MaxRequests : p = RequestPot(k)
      BY <2>2
    <3>2. CASE k = i
      <4>1. p = q
        BY <3>1, <3>2
      <4>2. DealPot'[p] = n
        BY <1>3, <1>4, <3>1, <3>2, DealsNext
      <4>3. DealPhase'[p] = "open"
        BY <1>3, <3>1, <3>2, DealsNext DEF RequestPhase
      <4>4. DealParties'[p] = {u, owner}
        BY <1>3, <1>5, <3>1, <3>2, DealsNext
      <4> QED BY <4>1, <4>2, <4>3, <4>4
    <3>3. CASE k # i
      <4>1. p # q
        BY <3>1, <3>3, PotNames
      <4>2. k \in DOMAIN requests => requests'[k] = requests[k] /\ OwnerNext(requests'[k]) = Owner(requests[k])
        BY <1>3, <1>5
      <4>5. DealPot'[p] = DealPot[p]
        BY <1>3, <3>1, <3>3, <4>2, DealsNow, DealsNext
      <4>6. DealPhase'[p] = DealPhase[p]
        BY <1>3, <3>1, <3>3, <4>2, DealsNow, DealsNext
      <4>7. DealParties'[p] = DealParties[p]
        <5>1. CASE k \in DOMAIN requests
          BY <1>3, <3>1, <4>2, <5>1, PartiesNow, PartiesNext
        <5>2. CASE k \notin DOMAIN requests
          BY <1>3, <3>1, <3>3, <5>2, PartiesNow, PartiesNext
        <5> QED BY <5>1, <5>2
      <4> QED BY <4>1, <4>5, <4>6, <4>7
    <3> QED BY <3>2, <3>3
  <2> QED BY <2>1, <2>2, PotNames
<1>8. /\ DealPot' = [DealPot EXCEPT ![q] = @ + n]
      /\ DealParties' = [DealParties EXCEPT ![q] = {u, owner}]
      /\ DealPhase' = [DealPhase EXCEPT ![q] = "open"]
  BY <1>2, <1>6, <1>7, DealsNow, DealsNext
<1>9. DealPot'[q] - DealPot[q] = n
  BY <1>2, <1>6, <1>7
<1>10. DealWallet[u] >= n /\ DealWallet' = [DealWallet EXCEPT ![u] = @ - n]
  BY LockPaysFromWallet
<1> HIDE DEF q, owner
<1>11. Deals!PutIn(u, q)
  <2>1. /\ DealPot'[q] - DealPot[q] >= 0
        /\ DealWallet[u] >= DealPot'[q] - DealPot[q]
    BY <1>9, <1>10
  <2>2. /\ DealWallet' = [DealWallet EXCEPT ![u] = @ - (DealPot'[q] - DealPot[q])]
        /\ DealPot' = [DealPot EXCEPT ![q] = @ + (DealPot'[q] - DealPot[q])]
    BY <1>8, <1>9, <1>10
  <2> QED BY <2>1, <2>2 DEF Deals!PutIn
<1>12. Deals!Open(u, owner, q)
  BY <1>6, <1>8, <1>11 DEF Deals!Open
<1> QED BY <1>12 DEF q, owner, i

LEMMA ServiceOpens ==
  ASSUME WellFormed, WellFormed', PotsSuffice, NEW u \in Users, NEW n \in Nat, Lock(u, n),
         Excess' = Excess, nextSvcID <= MaxServices, NEW row \in Service,
         row.active, row.owner = u,
         services' = Put(services, nextSvcID, row), nextSvcID' = nextSvcID + 1,
         UNCHANGED <<requests, nextReqID>>
  PROVE  Deals!Open(u, u, ServicePot(nextSvcID))
<1> DEFINE i == nextSvcID
           q == ServicePot(i)
<1>1. /\ DOMAIN services = 1..i-1 /\ i \in Nat \ {0} /\ i \notin DOMAIN services
      /\ i \in 1..MaxServices
  BY Parts, BoundsAreNat DEF WellFormed, TypeOK
<1>2. q \in PotIds
  BY <1>1, PotNames
<1>3. /\ \A k : k \in DOMAIN services' <=> k \in DOMAIN services \/ k = i
      /\ services'[i] = row
      /\ \A k \in DOMAIN services : services'[k] = services[k]
  BY <1>1 DEF Put
<1>4. row.bond = n
  <2>1. Bonded(services', nextSvcID') = Bonded(services, nextSvcID) + row.bond
    BY BondedWithOneMore
  <2>2. Staked(requests', nextReqID') = Staked(requests, nextReqID)
    OBVIOUS
  <2>3. row.bond \in Nat
    BY DEF Service
  <2>4. Held' = Held + row.bond
    BY <2>1, <2>2, <2>3, HeldType DEF Held
  <2>5. Held' = Held + n /\ Held \in Int
    BY LockPaysFromWallet, HeldType DEF Held
  <2> QED BY <2>3, <2>4, <2>5
<1>5. \A k \in DOMAIN requests : OwnerNext(requests'[k]) = Owner(requests[k])
  <2>1. \A k \in DOMAIN requests : requests[k].service \in DOMAIN services
    BY Parts
  <2> QED BY <1>3, <2>1 DEF OwnerNext, Owner
<1> HIDE DEF i
<1>6. DealPhase[q] = "unused" /\ DealPot[q] = 0 /\ DealParties[q] = {}
  BY <1>1, <1>2, DealsNow
<1>7. ASSUME NEW p \in PotIds
      PROVE  /\ DealPot'[p] = IF p = q THEN n ELSE DealPot[p]
             /\ DealPhase'[p] = IF p = q THEN "open" ELSE DealPhase[p]
             /\ DealParties'[p] = IF p = q THEN {u, u} ELSE DealParties[p]
  <2>1. CASE \E k \in 1..MaxRequests : p = RequestPot(k)
    <3>1. PICK k \in 1..MaxRequests : p = RequestPot(k)
      BY <2>1
    <3>2. p # q
      BY <3>1, PotNames
    <3>5. DealPot'[p] = DealPot[p]
      BY <1>5, <3>1, DealsNow, DealsNext
    <3>6. DealPhase'[p] = DealPhase[p]
      BY <1>5, <3>1, DealsNow, DealsNext
    <3>7. DealParties'[p] = DealParties[p]
      BY <1>5, <3>1, PartiesNow, PartiesNext
    <3> QED BY <3>2, <3>5, <3>6, <3>7
  <2>2. CASE \E s \in 1..MaxServices : p = ServicePot(s)
    <3>1. PICK s \in 1..MaxServices : p = ServicePot(s)
      BY <2>2
    <3>2. CASE s = i
      <4>1. p = q
        BY <3>1, <3>2
      <4>2. DealPot'[p] = n
        BY <1>3, <1>4, <3>1, <3>2, DealsNext
      <4>3. DealPhase'[p] = "open"
        BY <1>3, <3>1, <3>2, DealsNext DEF ServicePhase
      <4>4. DealParties'[p] = {u, u}
        BY <1>3, <3>1, <3>2, DealsNext
      <4> QED BY <4>1, <4>2, <4>3, <4>4
    <3>3. CASE s # i
      <4>1. p # q
        BY <3>1, <3>3, PotNames
      <4>2. s \in DOMAIN services => services'[s] = services[s]
        BY <1>3
      <4>5. DealPot'[p] = DealPot[p]
        BY <1>3, <3>1, <3>3, <4>2, DealsNow, DealsNext
      <4>6. DealPhase'[p] = DealPhase[p]
        BY <1>3, <3>1, <3>3, <4>2, DealsNow, DealsNext
      <4>7. DealParties'[p] = DealParties[p]
        BY <1>3, <3>1, <3>3, <4>2, PartiesNow, PartiesNext
      <4> QED BY <4>1, <4>5, <4>6, <4>7
    <3> QED BY <3>2, <3>3
  <2> QED BY <2>1, <2>2, PotNames
<1>8. /\ DealPot' = [DealPot EXCEPT ![q] = @ + n]
      /\ DealParties' = [DealParties EXCEPT ![q] = {u, u}]
      /\ DealPhase' = [DealPhase EXCEPT ![q] = "open"]
  BY <1>2, <1>6, <1>7, DealsNow, DealsNext
<1>9. DealPot'[q] - DealPot[q] = n
  BY <1>2, <1>6, <1>7
<1>10. DealWallet[u] >= n /\ DealWallet' = [DealWallet EXCEPT ![u] = @ - n]
  BY LockPaysFromWallet
<1> HIDE DEF q
<1>11. Deals!PutIn(u, q)
  <2>1. /\ DealPot'[q] - DealPot[q] >= 0
        /\ DealWallet[u] >= DealPot'[q] - DealPot[q]
    BY <1>9, <1>10
  <2>2. /\ DealWallet' = [DealWallet EXCEPT ![u] = @ - (DealPot'[q] - DealPot[q])]
        /\ DealPot' = [DealPot EXCEPT ![q] = @ + (DealPot'[q] - DealPot[q])]
    BY <1>8, <1>9, <1>10
  <2> QED BY <2>1, <2>2 DEF Deals!PutIn
<1>12. Deals!Open(u, u, q)
  BY <1>6, <1>8, <1>11 DEF Deals!Open
<1> QED BY <1>12 DEF q, i
-----------------------------------------------------------------------------
(* Settlements: what closes pays out to those who had a part in it.        *)

RequestSettled(i) ==
  /\ IsOpen(requests[i]) /\ ~IsOpen(requests'[i])
  /\ \A o : PartiesWith(requests'[i], o) = PartiesWith(requests[i], o)
  /\ requests'[i].service = requests[i].service

ServiceClosed(s) ==
  /\ services[s].active /\ ~services'[s].active
  /\ services'[s].bond = 0
  /\ services'[s].owner = services[s].owner

PaidBy(a) ==
  \/ \E i \in DOMAIN requests :
        RequestSettled(i) /\ a \in PartiesWith(requests[i], Owner(requests[i])) \cup {Treasury}
  \/ \E s \in DOMAIN services :
        ServiceClosed(s) /\ a \in {services[s].owner, Treasury}

LEMMA SettlesOrStutters ==
  ASSUME WellFormed, WellFormed', PotsSuffice, PotsSuffice', Excess' = Excess, Total' = Total,
         DOMAIN requests' = DOMAIN requests, DOMAIN services' = DOMAIN services,
         \A i \in DOMAIN requests : requests'[i] = requests[i] \/ RequestSettled(i),
         \A s \in DOMAIN services : services'[s] = services[s] \/ ServiceClosed(s),
         \A a \in Addresses \ {Escrow} :
            balances'[a] >= balances[a] /\ (balances'[a] > balances[a] => PaidBy(a))
  PROVE  (\E P \in SUBSET PotIds : Deals!Settle(P)) \/ UNCHANGED <<DealWallet, DealPot, DealPhase, DealParties>>
<1> DEFINE P == {RequestPot(i) : i \in {k \in DOMAIN requests : RequestSettled(k)}}
                  \cup {ServicePot(s) : s \in {k \in DOMAIN services : ServiceClosed(k)}}
<1>1. P \in SUBSET PotIds
  BY DEF PotsSuffice
<1>2. \A i \in DOMAIN requests : OwnerNext(requests'[i]) = Owner(requests[i])
  <2> SUFFICES ASSUME NEW i \in DOMAIN requests PROVE OwnerNext(requests'[i]) = Owner(requests[i])
    OBVIOUS
  <2>1. requests'[i].service = requests[i].service
    BY DEF RequestSettled
  <2>2. requests[i].service \in DOMAIN services
    BY Parts
  <2>3. services'[requests[i].service].owner = services[requests[i].service].owner
    BY <2>2 DEF ServiceClosed
  <2> QED BY <2>1, <2>3 DEF Owner, OwnerNext
<1>3. /\ \A k : RequestPot(k) \in P <=> k \in DOMAIN requests /\ RequestSettled(k)
      /\ \A k : ServicePot(k) \in P <=> k \in DOMAIN services /\ ServiceClosed(k)
  BY PotNames
<1> HIDE DEF P
<1>4. ASSUME NEW p \in PotIds
      PROVE  /\ p \in P => DealPhase[p] = "open" /\ DealPhase'[p] = "closed" /\ DealPot'[p] = 0
             /\ p \notin P => DealPhase'[p] = DealPhase[p] /\ DealPot'[p] = DealPot[p]
             /\ DealParties'[p] = DealParties[p]
  <2>1. CASE \E k \in 1..MaxRequests : p = RequestPot(k)
    <3>1. PICK k \in 1..MaxRequests : p = RequestPot(k)
      BY <2>1
    <3>2. CASE k \in DOMAIN requests /\ RequestSettled(k)
      <4>1. IsOpen(requests[k]) /\ ~IsOpen(requests'[k])
        BY <3>2 DEF RequestSettled
      <4>2. LockedFor(requests'[k]) = 0
        BY <4>1 DEF LockedFor
      <4>3. DealPhase[p] = "open" /\ DealPhase'[p] = "closed"
        BY <3>1, <3>2, <4>1, DealsNow, DealsNext DEF RequestPhase
      <4>4. DealPot'[p] = 0
        BY <3>1, <3>2, <4>2, DealsNext
      <4>5. PartiesWith(requests'[k], OwnerNext(requests'[k])) = PartiesWith(requests[k], Owner(requests[k]))
        BY <1>2, <3>2 DEF RequestSettled
      <4>6. DealParties'[p] = DealParties[p]
        BY <3>1, <3>2, <4>5, PartiesNow, PartiesNext
      <4> QED BY <1>3, <3>1, <3>2, <4>3, <4>4, <4>6
    <3>3. CASE k \in DOMAIN requests /\ ~RequestSettled(k)
      <4>1. requests'[k] = requests[k] /\ OwnerNext(requests'[k]) = Owner(requests[k])
        BY <1>2, <3>3
      <4>2. DealPhase'[p] = DealPhase[p]
        BY <3>1, <3>3, <4>1, DealsNow, DealsNext
      <4>3. DealPot'[p] = DealPot[p]
        BY <3>1, <3>3, <4>1, DealsNow, DealsNext
      <4>4. DealParties'[p] = DealParties[p]
        BY <3>1, <3>3, <4>1, PartiesNow, PartiesNext
      <4> QED BY <1>3, <3>1, <3>3, <4>2, <4>3, <4>4
    <3>4. CASE k \notin DOMAIN requests
      <4>1. DealPhase'[p] = DealPhase[p] /\ DealPot'[p] = DealPot[p]
        BY <3>1, <3>4, DealsNow, DealsNext
      <4>2. DealParties'[p] = DealParties[p]
        BY <3>1, <3>4, PartiesNow, PartiesNext
      <4> QED BY <1>3, <3>1, <3>4, <4>1, <4>2
    <3> QED BY <3>2, <3>3, <3>4
  <2>2. CASE \E k \in 1..MaxServices : p = ServicePot(k)
    <3>1. PICK k \in 1..MaxServices : p = ServicePot(k)
      BY <2>2
    <3>2. CASE k \in DOMAIN services /\ ServiceClosed(k)
      <4>1. /\ services[k].active /\ ~services'[k].active /\ services'[k].bond = 0
            /\ services'[k].owner = services[k].owner
        BY <3>2 DEF ServiceClosed
      <4>2. DealPhase[p] = "open" /\ DealPhase'[p] = "closed"
        BY <3>1, <3>2, <4>1, DealsNow, DealsNext DEF ServicePhase
      <4>3. DealPot'[p] = 0
        BY <3>1, <3>2, <4>1, DealsNext
      <4>4. DealParties'[p] = DealParties[p]
        BY <3>1, <3>2, <4>1, PartiesNow, PartiesNext, SMTT(20)
      <4> QED BY <1>3, <3>1, <3>2, <4>2, <4>3, <4>4
    <3>3. CASE k \in DOMAIN services /\ ~ServiceClosed(k)
      <4>1. services'[k] = services[k]
        BY <3>3
      <4>2. DealPhase'[p] = DealPhase[p] /\ DealPot'[p] = DealPot[p]
        BY <3>1, <3>3, <4>1, DealsNow, DealsNext
      <4>3. DealParties'[p] = DealParties[p]
        BY <3>1, <3>3, <4>1, PartiesNow, PartiesNext, SMTT(20)
      <4> QED BY <1>3, <3>1, <3>3, <4>2, <4>3
    <3>4. CASE k \notin DOMAIN services
      <4>1. DealPhase'[p] = DealPhase[p] /\ DealPot'[p] = DealPot[p]
        BY <3>1, <3>4, DealsNow, DealsNext
      <4>2. DealParties'[p] = DealParties[p]
        BY <3>1, <3>4, PartiesNow, PartiesNext
      <4> QED BY <1>3, <3>1, <3>4, <4>1, <4>2
    <3> QED BY <3>2, <3>3, <3>4
  <2> QED BY <2>1, <2>2, PotNames
<1>5. /\ DealPhase' = [p \in PotIds |-> IF p \in P THEN "closed" ELSE DealPhase[p]]
      /\ DealPot' = [p \in PotIds |-> IF p \in P THEN 0 ELSE DealPot[p]]
      /\ DealParties' = DealParties
  BY <1>4, DealsNow, DealsNext
<1>6. /\ DealWallet \in [Addresses -> Int] /\ DealWallet' \in [Addresses -> Int]
      /\ DealWallet[Escrow] = Excess /\ DealWallet'[Escrow] = Excess'
      /\ \A a \in Addresses : a # Escrow => DealWallet[a] = balances[a] /\ DealWallet'[a] = balances'[a]
      /\ SumFunction(DealWallet) = Total - Held /\ SumFunction(DealWallet') = Total' - Held'
  BY WalletNow, MappedNext
<1>7. Excess \in Int
  BY ExcessIsSurplus
<1>8. ASSUME NEW a \in Addresses
      PROVE  /\ DealWallet'[a] >= DealWallet[a]
             /\ DealWallet'[a] > DealWallet[a] => PaidBy(a)
  <2>1. CASE a = Escrow
    BY <1>6, <1>7, <2>1
  <2>2. CASE a # Escrow
    BY <1>6, <2>2
  <2> QED BY <2>1, <2>2
<1>9. ASSUME NEW a \in Addresses, PaidBy(a)
      PROVE  /\ P # {}
             /\ a = Treasury \/ \E p \in P : a \in DealParties[p]
  <2>1. CASE \E i \in DOMAIN requests :
               RequestSettled(i) /\ a \in PartiesWith(requests[i], Owner(requests[i])) \cup {Treasury}
    <3>1. PICK i \in DOMAIN requests :
               RequestSettled(i) /\ a \in PartiesWith(requests[i], Owner(requests[i])) \cup {Treasury}
      BY <2>1
    <3>2. RequestPot(i) \in P /\ RequestPot(i) \in PotIds
      BY <1>1, <1>3, <3>1
    <3>3. DealParties[RequestPot(i)] = PartiesWith(requests[i], Owner(requests[i]))
      BY <3>2, PartiesNow
    <3> QED BY <3>1, <3>2, <3>3
  <2>2. CASE \E s \in DOMAIN services : ServiceClosed(s) /\ a \in {services[s].owner, Treasury}
    <3>1. PICK s \in DOMAIN services : ServiceClosed(s) /\ a \in {services[s].owner, Treasury}
      BY <2>2
    <3>2. ServicePot(s) \in P /\ ServicePot(s) \in PotIds
      BY <1>1, <1>3, <3>1
    <3>3. DealParties[ServicePot(s)] = {services[s].owner}
      BY <3>2, PartiesNow
    <3> QED BY <3>1, <3>2, <3>3
  <2> QED BY <1>9, <2>1, <2>2 DEF PaidBy
<1>10. CASE P = {}
  <2>1. \A a \in Addresses : DealWallet'[a] = DealWallet[a]
    BY <1>6, <1>8, <1>9, <1>10
  <2>2. DealWallet' = DealWallet
    BY <1>6, <2>1
  <2>3. \A p \in PotIds : DealPhase'[p] = DealPhase[p] /\ DealPot'[p] = DealPot[p]
    BY <1>4, <1>10
  <2>4. DealPhase' = DealPhase /\ DealPot' = DealPot
    BY <2>3, DealsNow, DealsNext
  <2> QED BY <1>5, <2>2, <2>4
<1>11. CASE P # {}
  <2>1. SumFunction(DealWallet') - SumFunction(DealWallet) = SumFunctionOnSet(DealPot, P)
    <3>1. /\ DealPot \in [PotIds -> Int] /\ DealPot' \in [PotIds -> Int]
          /\ SumFunction(DealPot) = Held /\ SumFunction(DealPot') = Held'
      BY PotsNow, MappedNext
    <3>2. \A p \in PotIds : DealPot'[p] = IF p \in P THEN 0 ELSE DealPot[p]
      BY <1>4
    <3>3. SumFunctionOnSet(DealPot, P) = SumFunction(DealPot) - SumFunction(DealPot')
      BY ONLY <1>1, <3>1, <3>2, PotsFinite, SumOverPart
    <3>4. Total \in Int /\ Held \in Int /\ Held' \in Int
      BY BalancesTyped, AddressesFinite, SumFunctionInt, HeldType, NextHeldType DEF Total, Held
    <3> QED BY <1>6, <3>1, <3>3, <3>4
  <2>2. \A p \in P : DealPhase[p] = "open"
    BY <1>1, <1>4
  <2>3. \A a \in Addresses :
          /\ DealWallet'[a] >= DealWallet[a]
          /\ DealWallet'[a] > DealWallet[a] => a = Treasury \/ \E p \in P : a \in DealParties[p]
    BY <1>8, <1>9
  <2>4. Deals!SumFunction(DealWallet') - Deals!SumFunction(DealWallet) = Deals!SumFunctionOnSet(DealPot, P)
    BY <2>1 DEF Deals!SumFunctionOnSet, SumFunctionOnSet, Deals!FoldFunctionOnSet, FoldFunctionOnSet,
                Deals!MapThenFoldSet, MapThenFoldSet, Deals!SumFunction, SumFunction
  <2>5. Deals!Settle(P)
    BY <1>5, <1>11, <2>2, <2>3, <2>4 DEF Deals!Settle
  <2> QED BY <1>1, <2>5
<1> QED BY <1>10, <1>11
(* No settlement credits anybody but the parties and the treasury.         *)
LEMMA PaidToParties ==
  ASSUME NEW r \in Request, NEW owner, NEW a \in Addresses, a \notin PartiesWith(r, owner), a # Treasury
  PROVE  /\ Refund(r).credit[a] = 0
         /\ Finalize(r, owner).credit[a] = 0
         /\ r.challenges # << >> => Slash(r).credit[a] = 0
         /\ r.challenges # << >> => Dismiss(r, owner).credit[a] = 0
         /\ Void(r, owner).credit[a] = 0
<1>1. a # r.requester /\ a # owner /\ \A v \in r.vouchers : v.voucher # a
  BY DEF PartiesWith
<1>2. r.challenges # << >> => r.challenges[1].challenger # a
  <2>1. r.challenges \in Seq(Challenge)
    BY DEF Request
  <2>2. r.challenges # << >> => 1 \in DOMAIN r.challenges
    BY <2>1
  <2> QED BY <2>2 DEF PartiesWith
<1>3. RowsOf(r.vouchers, a) = 0 /\ RowsOf(Backers(r), a) = 0 /\ RowsOf(Doubters(r), a) = 0
  BY <1>1, RowsNone DEF Backers, Doubters
<1>4. VoucherBond(r) \in Nat
  BY RequestParts
<1>5. Refund(r).credit[a] = 0 /\ Finalize(r, owner).credit[a] = 0
  BY <1>1 DEF Refund, Finalize, Due
<1>6. ASSUME r.challenges # << >> PROVE Slash(r).credit[a] = 0
  BY <1>1, <1>2, <1>3, <1>4, <1>6 DEF Slash, Due
<1>7. ASSUME r.challenges # << >> PROVE Dismiss(r, owner).credit[a] = 0
  <2> DEFINE pool == r.challenges[1].bond + VoucherBond(r) * Cardinality(Doubters(r))
             share == Share(pool, 1 + Cardinality(Backers(r)))
  <2>1. r.challenges[1].bond \in Nat /\ Cardinality(Backers(r)) \in Nat /\ Cardinality(Doubters(r)) \in Nat
    BY <1>7, RequestParts, SidesPartition
  <2>2. pool \in Nat
    BY <1>4, <2>1, NatTimes
  <2> HIDE DEF pool
  <2>3. share \in Nat
    <3>1. 1 + Cardinality(Backers(r)) \in Nat \ {0}
      BY <2>1
    <3> QED BY <2>2, <3>1, ShareType
  <2>4. Dismiss(r, owner).credit[a]
          = Due(a = owner, r.escrow + r.providerBond + share + Remainder(pool, 1 + Cardinality(Backers(r))))
              + (VoucherBond(r) + share) * RowsOf(Backers(r), a)
    BY DEF Dismiss, pool
  <2> HIDE DEF share
  <2> QED BY <1>1, <1>3, <1>4, <2>3, <2>4 DEF Due
<1>8. Void(r, owner).credit[a] = 0
  <2>1. Void(r, owner).credit[a]
          = Due(a = r.requester, r.escrow)
              + Due(r.status \in {"SUBMITTED", "CHALLENGED"} /\ a = owner, r.providerBond)
              + (IF r.status = "CHALLENGED" /\ r.challenges # << >>
                   THEN Due(a = r.challenges[1].challenger, r.challenges[1].bond) ELSE 0)
              + VoucherBond(r) * RowsOf(r.vouchers, a)
    BY DEF Void
  <2> QED BY <1>1, <1>2, <1>3, <1>4, <2>1 DEF Due
<1> QED BY <1>5, <1>6, <1>7, <1>8

(* Settling a request changes nothing but its status.                      *)
LEMMA OnlyStatus ==
  ASSUME NEW r \in Request, NEW st
  PROVE  /\ [r EXCEPT !.status = st].status = st
         /\ [r EXCEPT !.status = st].service = r.service
         /\ \A o : PartiesWith([r EXCEPT !.status = st], o) = PartiesWith(r, o)
BY DEF Request, PartiesWith

LEMMA ReleasePaysOut ==
  ASSUME WellFormed, NEW debit, NEW credit \in [Addresses -> Nat], Release(debit, credit),
         NEW a \in Addresses \ {Escrow}
  PROVE  balances'[a] = balances[a] + credit[a]
<1>1. balances[a] \in Nat /\ credit[a] \in Nat
  BY BalancesTyped
<1> QED BY <1>1 DEF Release, Due

MapStep ==
  \/ \E a \in Addresses, b \in Addresses, p \in PotIds : Deals!Open(a, b, p)
  \/ \E a \in Addresses, p \in PotIds : Deals!Stake(a, p)
  \/ \E P \in SUBSET PotIds : Deals!Settle(P)
  \/ \E a \in Addresses, b \in Addresses : Deals!Give(a, b)
  \/ UNCHANGED <<DealWallet, DealPot, DealPhase, DealParties>>

(* One request written, and paid out.                                      *)
LEMMA OneRequestSettles ==
  ASSUME WellFormed, WellFormed', PotsSuffice, PotsSuffice', Excess' = Excess, Total' = Total,
         NEW i \in DOMAIN requests, NEW row, requests' = Put(requests, i, row),
         IsOpen(requests[i]), ~IsOpen(row), row.service = requests[i].service,
         \A o : PartiesWith(row, o) = PartiesWith(requests[i], o), UNCHANGED services,
         \A a \in Addresses \ {Escrow} :
           /\ balances'[a] >= balances[a]
           /\ balances'[a] > balances[a] =>
                a \in PartiesWith(requests[i], Owner(requests[i])) \cup {Treasury}
  PROVE  MapStep
<1>1. /\ DOMAIN requests' = DOMAIN requests
      /\ requests'[i] = row
      /\ \A k \in DOMAIN requests : k # i => requests'[k] = requests[k]
  BY DEF Put
<1>2. RequestSettled(i)
  BY <1>1 DEF RequestSettled
<1>3. \A k \in DOMAIN requests : requests'[k] = requests[k] \/ RequestSettled(k)
  BY <1>1, <1>2
<1>4. \A a \in Addresses \ {Escrow} :
         balances'[a] >= balances[a] /\ (balances'[a] > balances[a] => PaidBy(a))
  BY <1>2 DEF PaidBy
<1>5. DOMAIN services' = DOMAIN services /\ \A s \in DOMAIN services : services'[s] = services[s] \/ ServiceClosed(s)
  OBVIOUS
<1>6. (\E P \in SUBSET PotIds : Deals!Settle(P)) \/ UNCHANGED <<DealWallet, DealPot, DealPhase, DealParties>>
  BY <1>1, <1>3, <1>4, <1>5, SettlesOrStutters
<1> QED BY <1>6 DEF MapStep

LEMMA ResolveChallengeMaps ==
  ASSUME WellFormed, WellFormed', PotsSuffice, PotsSuffice', NEW u \in Users, NEW i, NEW decision,
         ResolveChallenge(u, i, decision)
  PROVE  MapStep
<1> DEFINE r   == requests[i]
           out == IF decision = "dismiss" THEN Dismiss(r, Owner(r)) ELSE Slash(r)
           row == [r EXCEPT !.status = out.status]
<1>1. /\ i \in DOMAIN requests /\ r.status = "CHALLENGED" /\ Release(out.debit, out.credit)
      /\ requests' = Put(requests, i, row) /\ UNCHANGED services
  BY DEF ResolveChallenge, registry
<1>2. r \in Request /\ r.challenges # << >> /\ Owner(r) \in Users
  BY <1>1, Parts
<1>3. out \in Settlements
  BY <1>2, SlashType, DismissType
<1>4. out.status \in TerminalStatuses
  BY DEF Slash, Dismiss, TerminalStatuses
<1>5. \A a \in Addresses : a \notin PartiesWith(r, Owner(r)) /\ a # Treasury => out.credit[a] = 0
  BY <1>2, PaidToParties
<1>6. Excess' = Excess /\ Total' = Total
  BY ResolveChallengeExact, ResolveChallengeKeeps
<1> HIDE DEF out, r
<1>7. IsOpen(r) /\ ~IsOpen(row) /\ row.service = r.service
      /\ \A o : PartiesWith(row, o) = PartiesWith(r, o)
  BY <1>1, <1>2, <1>4, OnlyStatus DEF IsOpen, OpenStatuses, TerminalStatuses
<1> HIDE DEF row
<1>8. ASSUME NEW a \in Addresses \ {Escrow}
      PROVE  /\ balances'[a] >= balances[a]
             /\ balances'[a] > balances[a] => a \in PartiesWith(r, Owner(r)) \cup {Treasury}
  <2>1. out.credit \in [Addresses -> Nat] /\ out.credit[a] \in Nat /\ balances[a] \in Nat
    BY <1>3, BalancesTyped DEF Settlements
  <2>2. balances'[a] = balances[a] + out.credit[a]
    BY <1>1, <2>1, ReleasePaysOut
  <2> QED BY <1>5, <2>1, <2>2
<1> QED BY <1>1, <1>6, <1>7, <1>8, OneRequestSettles DEF r

LEMMA SubmitAndFinalizeMaps ==
  ASSUME WellFormed, WellFormed', PotsSuffice, PotsSuffice', NEW u \in Users, NEW i, NEW att,
         NEW out \in Outputs, SubmitAndFinalize(u, i, att, out)
  PROVE  MapStep
<1> DEFINE r   == requests[i]
           sub == Submitted(r, out)
           f   == Finalize(sub, u)
           row == [sub EXCEPT !.status = f.status]
<1>1. /\ i \in DOMAIN requests /\ r.status = "PENDING" /\ u = Owner(r)
      /\ balances' = [balances EXCEPT ![u] = @ - ProviderBondAmount + f.credit[u],
                                      ![Escrow] = @ + ProviderBondAmount - f.debit]
      /\ requests' = Put(requests, i, row) /\ UNCHANGED services
  BY DEF SubmitAndFinalize, Submittable, registry
<1>2. r \in Request
  BY <1>1, Parts
<1>3. sub \in Request
  BY <1>1, SubmittedWellFormed
<1>4. f.status = "FINALIZED" /\ f.credit[u] = sub.escrow + sub.providerBond
  BY DEF Finalize, Due, Addresses
<1>5. sub.escrow = r.escrow /\ sub.providerBond = ProviderBondAmount /\ sub.service = r.service
      /\ \A o : PartiesWith(sub, o) = PartiesWith(r, o)
  BY <1>2 DEF Submitted, Request, PartiesWith
<1>6. Excess' = Excess /\ Total' = Total
  BY SubmitAndFinalizeExact, SubmitAndFinalizeKeeps
<1> HIDE DEF f, sub, r
<1>7. IsOpen(r) /\ ~IsOpen(row) /\ row.service = r.service
      /\ \A o : PartiesWith(row, o) = PartiesWith(r, o)
  BY <1>1, <1>3, <1>4, <1>5, OnlyStatus DEF IsOpen, OpenStatuses
<1> HIDE DEF row
<1>8. ASSUME NEW a \in Addresses \ {Escrow}
      PROVE  /\ balances'[a] >= balances[a]
             /\ balances'[a] > balances[a] => a \in PartiesWith(r, Owner(r)) \cup {Treasury}
  <2>1. balances \in [Addresses -> Nat] /\ balances[a] \in Nat
    BY BalancesTyped
  <2>2. CASE a = u
    <3>1. balances'[a] = balances[a] - ProviderBondAmount + f.credit[u]
      BY <1>1, <2>1, <2>2, AddressesDistinct
    <3>2. r.escrow \in Nat
      BY <1>2 DEF Request
    <3>3. a \in PartiesWith(r, Owner(r))
      BY <1>1, <2>2 DEF PartiesWith
    <3>4. balances'[a] = balances[a] + r.escrow
      BY <1>4, <1>5, <2>1, <3>1, <3>2, BondsAreNat
    <3> QED BY <2>1, <3>2, <3>3, <3>4
  <2>3. CASE a # u
    <3>1. balances'[a] = balances[a]
      BY <1>1, <2>1, <2>3
    <3> QED BY <2>1, <3>1
  <2> QED BY <2>2, <2>3
<1> QED BY <1>1, <1>6, <1>7, <1>8, OneRequestSettles DEF r
(* A service taken offline by its owner. *)
LEMMA DeactivateServiceMaps ==
  ASSUME WellFormed, WellFormed', PotsSuffice, PotsSuffice', NEW u \in Users, NEW s,
         DeactivateService(u, s)
  PROVE  MapStep
<1> DEFINE svc  == services[s]
           goes == IF BondRefundable(svc) THEN u ELSE Treasury
           got  == [a \in Addresses |-> Due(a = goes, svc.bond)]
<1>1. /\ s \in DOMAIN services /\ svc.owner = u /\ svc.active
      /\ Release(svc.bond, got)
      /\ services' = Put(services, s, Closed(svc)) /\ UNCHANGED requests
  BY DEF DeactivateService
<1>2. svc \in Service /\ svc.bond \in Nat
  BY <1>1, Parts
<1>3. got \in [Addresses -> Nat]
  BY <1>2, DueType
<1>4. ~Closed(svc).active /\ Closed(svc).bond = 0 /\ Closed(svc).owner = svc.owner
  BY <1>2 DEF Closed, Service
<1>5. DOMAIN services' = DOMAIN services /\ services'[s] = Closed(svc)
      /\ \A k \in DOMAIN services : k # s => services'[k] = services[k]
  BY <1>1 DEF Put
<1>6. ServiceClosed(s)
  BY <1>1, <1>4, <1>5 DEF ServiceClosed
<1>7. \A k \in DOMAIN services : services'[k] = services[k] \/ ServiceClosed(k)
  BY <1>5, <1>6
<1>8. ASSUME NEW a \in Addresses \ {Escrow}
      PROVE  balances'[a] >= balances[a] /\ (balances'[a] > balances[a] => PaidBy(a))
  <2>1. got[a] \in Nat /\ balances[a] \in Nat
    BY <1>3, BalancesTyped
  <2>2. balances'[a] = balances[a] + got[a]
    BY <1>1, <1>3, ReleasePaysOut
  <2>3. got[a] # 0 => a \in {u, Treasury}
    BY DEF Due
  <2> HIDE DEF got
  <2>4. a \in {u, Treasury} => PaidBy(a)
    BY <1>1, <1>6 DEF PaidBy
  <2> QED BY <2>1, <2>2, <2>3, <2>4
<1>9. Excess' = Excess /\ Total' = Total
  BY DeactivateServiceExact, DeactivateServiceKeeps
<1>10. DOMAIN requests' = DOMAIN requests /\ \A i \in DOMAIN requests : requests'[i] = requests[i] \/ RequestSettled(i)
  BY <1>1
<1>11. (\E P \in SUBSET PotIds : Deals!Settle(P)) \/ UNCHANGED <<DealWallet, DealPot, DealPhase, DealParties>>
  BY <1>5, <1>7, <1>8, <1>9, <1>10, SettlesOrStutters
<1> QED BY <1>11 DEF MapStep

(* What a block does with a request, if anything. *)
LEMMA OutcomeSettles ==
  ASSUME WellFormed, NEW i \in DOMAIN requests, NEW h
  PROVE  LET out == Outcome(requests[i], h)
         IN  \/ /\ IsOpen(requests[i]) /\ out.status \in TerminalStatuses
                /\ \A a \in Addresses : a \notin PartiesWith(requests[i], Owner(requests[i])) /\ a # Treasury
                                           => out.credit[a] = 0
             \/ /\ out.status = requests[i].status
                /\ \A a \in Addresses : out.credit[a] = 0
<1> DEFINE r == requests[i]
<1>1. r \in Request /\ Owner(r) \in Users /\ (r.status = "CHALLENGED" => r.challenges # << >>)
  BY Parts
<1> DEFINE stranger(a) == a \notin PartiesWith(r, Owner(r)) /\ a # Treasury
<1>2. ASSUME NEW a \in Addresses, stranger(a)
      PROVE  /\ Refund(r).credit[a] = 0 /\ Finalize(r, Owner(r)).credit[a] = 0
             /\ r.status = "CHALLENGED" => Slash(r).credit[a] = 0 /\ Dismiss(r, Owner(r)).credit[a] = 0
  BY <1>1, <1>2, PaidToParties
<1>3. /\ Refund(r).status \in TerminalStatuses /\ Finalize(r, Owner(r)).status \in TerminalStatuses
      /\ Slash(r).status \in TerminalStatuses /\ Dismiss(r, Owner(r)).status \in TerminalStatuses
  BY DEF Refund, Finalize, Slash, Dismiss, TerminalStatuses
<1> HIDE DEF r
<1>4. CASE RefundDue(r, h)
  <2>1. IsOpen(r)
    BY <1>4 DEF RefundDue, IsOpen, OpenStatuses
  <2>2. Outcome(r, h) = Refund(r)
    BY <1>4 DEF Outcome, RefundDue, FinalizeDue, ResolveDue
  <2> QED BY <1>2, <1>3, <2>1, <2>2 DEF r
<1>5. CASE FinalizeDue(r, h)
  <2>1. IsOpen(r)
    BY <1>5 DEF FinalizeDue, IsOpen, OpenStatuses
  <2>2. Outcome(r, h) = Finalize(r, Owner(r))
    BY <1>5 DEF Outcome, RefundDue, FinalizeDue, ResolveDue
  <2> QED BY <1>2, <1>3, <2>1, <2>2 DEF r
<1>6. CASE ResolveDue(r, h)
  <2>1. IsOpen(r) /\ r.status = "CHALLENGED"
    BY <1>6 DEF ResolveDue, IsOpen, OpenStatuses
  <2>2. Outcome(r, h) \in {Dismiss(r, Owner(r)), Slash(r)}
    BY <1>6 DEF Outcome, RefundDue, FinalizeDue, ResolveDue
  <2> QED BY <1>2, <1>3, <2>1, <2>2 DEF r
<1>7. CASE ~RefundDue(r, h) /\ ~FinalizeDue(r, h) /\ ~ResolveDue(r, h)
  <2>1. Outcome(r, h) = LeftAlone(r)
    BY <1>7 DEF Outcome
  <2>2. LeftAlone(r).status = r.status /\ \A a \in Addresses : LeftAlone(r).credit[a] = 0
    BY DEF LeftAlone
  <2> QED BY <2>1, <2>2 DEF r
<1> QED BY <1>4, <1>5, <1>6, <1>7

LEMMA CommitBlockMaps ==
  ASSUME WellFormed, WellFormed', PotsSuffice, PotsSuffice', CommitBlock
  PROVE  MapStep
<1> DEFINE out == [i \in DOMAIN requests |-> Outcome(requests[i], height + 1)]
           n == nextReqID - 1
           debit == [i \in DOMAIN requests |-> out[i].debit]
           credit(a) == [i \in DOMAIN requests |-> out[i].credit[a]]
           got  == [a \in Addresses |-> SumTo(credit(a), n)]
           party(i) == PartiesWith(requests[i], Owner(requests[i])) \cup {Treasury}
<1>1. /\ Release(SumTo(debit, n), got)
      /\ requests' = [i \in DOMAIN requests |-> [requests[i] EXCEPT !.status = out[i].status]]
      /\ UNCHANGED services
  BY DEF CommitBlock, registry
<1>2. n \in Nat /\ DOMAIN requests = 1..n
  BY Parts
<1>3. ASSUME NEW i \in DOMAIN requests
      PROVE  /\ \A a \in Addresses : credit(a)[i] \in Nat
             /\ \/ RequestSettled(i) /\ \A a \in Addresses : a \notin party(i) => credit(a)[i] = 0
                \/ requests'[i] = requests[i] /\ \A a \in Addresses : credit(a)[i] = 0
  <2>1. out[i] \in Settlements /\ requests[i] \in Request
    BY OutcomeType, Parts
  <2>2. \/ /\ IsOpen(requests[i]) /\ out[i].status \in TerminalStatuses
           /\ \A a \in Addresses : a \notin party(i) => out[i].credit[a] = 0
        \/ /\ out[i].status = requests[i].status
           /\ \A a \in Addresses : out[i].credit[a] = 0
    BY OutcomeSettles
  <2> HIDE DEF out, party
  <2>3. \A a \in Addresses : credit(a)[i] = out[i].credit[a] /\ out[i].credit[a] \in Nat
    BY <2>1 DEF Settlements
  <2>4. requests'[i] = [requests[i] EXCEPT !.status = out[i].status]
    BY <1>1
  <2>5. out[i].status \in TerminalStatuses /\ IsOpen(requests[i]) => RequestSettled(i)
    BY <2>1, <2>4, OnlyStatus DEF RequestSettled, IsOpen, OpenStatuses, TerminalStatuses
  <2>6. out[i].status = requests[i].status => requests'[i] = requests[i]
    BY <2>1, <2>4 DEF Request
  <2> HIDE DEF credit
  <2> QED BY <2>2, <2>3, <2>5, <2>6
<1>4. got \in [Addresses -> Nat]
  <2> SUFFICES ASSUME NEW a \in Addresses PROVE SumTo(credit(a), n) \in Nat
    OBVIOUS
  <2> HIDE DEF credit
  <2> QED BY <1>2, <1>3, SumNat
<1> HIDE DEF debit, out, n, credit
<1>5. ASSUME NEW a \in Addresses \ {Escrow}
      PROVE  balances'[a] >= balances[a] /\ (balances'[a] > balances[a] => PaidBy(a))
  <2>1. got[a] \in Nat /\ balances[a] \in Nat /\ got[a] = SumTo(credit(a), n)
    BY <1>4, BalancesTyped
  <2>2. balances'[a] = balances[a] + got[a]
    BY <1>1, <1>4, ReleasePaysOut
  <2>3. ASSUME got[a] # 0 PROVE PaidBy(a)
    <3>1. ~\A i \in 1..n : credit(a)[i] = 0
      BY <1>2, <2>1, <2>3, SumOfNothing
    <3>2. PICK i \in DOMAIN requests : credit(a)[i] # 0
      BY <1>2, <3>1
    <3>3. RequestSettled(i) /\ a \in party(i)
      BY <1>3, <3>2
    <3> QED BY <3>3 DEF PaidBy
  <2> HIDE DEF got
  <2> QED BY <2>1, <2>2, <2>3
<1>6. Excess' = Excess /\ Total' = Total
  BY CommitBlockExact, CommitBlockKeeps
<1>7. /\ DOMAIN requests' = DOMAIN requests /\ DOMAIN services' = DOMAIN services
      /\ \A i \in DOMAIN requests : requests'[i] = requests[i] \/ RequestSettled(i)
      /\ \A s \in DOMAIN services : services'[s] = services[s] \/ ServiceClosed(s)
  BY <1>1, <1>3
<1>8. (\E P \in SUBSET PotIds : Deals!Settle(P)) \/ UNCHANGED <<DealWallet, DealPot, DealPhase, DealParties>>
  BY <1>5, <1>6, <1>7, SettlesOrStutters
<1> QED BY <1>8 DEF MapStep

LEMMA DeactivateDomainMaps ==
  ASSUME WellFormed, WellFormed', PotsSuffice, PotsSuffice', NEW u \in Users, NEW d,
         DeactivateDomain(u, d)
  PROVE  MapStep
<1> DEFINE closing == {s \in BoundTo(d) : services[s].active}
           voided  == VoidedBy(d)
           out     == [i \in DOMAIN requests |-> Void(requests[i], Owner(requests[i]))]
           bond    == [s \in DOMAIN services |-> Due(s \in closing, services[s].bond)]
           refund(a) == [s \in DOMAIN services |-> Due(services[s].owner = a, bond[s])]
           debit   == [i \in DOMAIN requests |-> Due(i \in voided, out[i].debit)]
           credit(a) == [i \in DOMAIN requests |-> Due(i \in voided, out[i].credit[a])]
           m == nextSvcID - 1
           n == nextReqID - 1
           paid == SumTo(bond, m) + SumTo(debit, n)
           got  == [a \in Addresses |-> SumTo(refund(a), m) + SumTo(credit(a), n)]
           party(i) == PartiesWith(requests[i], Owner(requests[i])) \cup {Treasury}
<1>1. /\ Release(paid, got)
      /\ services' = [s \in DOMAIN services |->
                        IF s \in closing THEN Closed(services[s]) ELSE services[s]]
      /\ requests' = [i \in DOMAIN requests |->
                        IF i \in voided
                          THEN [requests[i] EXCEPT !.status = out[i].status]
                          ELSE requests[i]]
  BY DEF DeactivateDomain
<1>2. /\ \A i \in voided : i \in DOMAIN requests /\ IsOpen(requests[i])
      /\ \A s \in closing : s \in DOMAIN services /\ services[s].active
  BY DEF VoidedBy, BoundTo
<1>3. m \in Nat /\ n \in Nat /\ DOMAIN services = 1..m /\ DOMAIN requests = 1..n
  BY Parts
<1> HIDE DEF closing, voided
<1>4. ASSUME NEW s \in DOMAIN services
      PROVE  /\ \A a : refund(a)[s] \in Nat
             /\ \/ ServiceClosed(s) /\ \A a : a # services[s].owner => refund(a)[s] = 0
                \/ services'[s] = services[s] /\ \A a : refund(a)[s] = 0
  <2>1. services[s] \in Service /\ services[s].bond \in Nat
    BY Parts
  <2>2. \A a : refund(a)[s] = Due(services[s].owner = a, Due(s \in closing, services[s].bond))
    OBVIOUS
  <2>3. \A a : refund(a)[s] \in Nat
    BY <2>1, <2>2 DEF Due
  <2>4. CASE s \in closing
    <3>1. services'[s] = Closed(services[s])
      BY <1>1, <2>4
    <3>2. ~Closed(services[s]).active /\ Closed(services[s]).bond = 0
          /\ Closed(services[s]).owner = services[s].owner
      BY <2>1 DEF Closed, Service
    <3>3. ServiceClosed(s)
      BY <1>2, <2>4, <3>1, <3>2 DEF ServiceClosed
    <3> QED BY <2>2, <2>3, <3>3 DEF Due
  <2>5. CASE s \notin closing
    BY <1>1, <2>2, <2>3, <2>5 DEF Due
  <2> QED BY <2>4, <2>5
<1>5. ASSUME NEW i \in DOMAIN requests
      PROVE  /\ \A a \in Addresses : credit(a)[i] \in Nat
             /\ \/ RequestSettled(i) /\ \A a \in Addresses : a \notin party(i) => credit(a)[i] = 0
                \/ requests'[i] = requests[i] /\ \A a \in Addresses : credit(a)[i] = 0
  <2>1. out[i] \in Settlements /\ requests[i] \in Request
    BY Parts, VoidType
  <2>2. \A a \in Addresses : a \notin party(i) => out[i].credit[a] = 0
    BY <2>1, PaidToParties
  <2>3. out[i].status \in TerminalStatuses
    BY DEF Void, TerminalStatuses
  <2>4. \A a \in Addresses : credit(a)[i] = Due(i \in voided, out[i].credit[a])
    OBVIOUS
  <2> HIDE DEF out, party
  <2>5. \A a \in Addresses : out[i].credit[a] \in Nat
    BY <2>1 DEF Settlements
  <2> HIDE DEF credit
  <2>6. \A a \in Addresses : credit(a)[i] \in Nat
    BY <2>4, <2>5, DueType
  <2>7. CASE i \in voided
    <3>1. requests'[i] = [requests[i] EXCEPT !.status = out[i].status]
      BY <1>1, <2>7
    <3>2. RequestSettled(i)
      BY <1>2, <2>1, <2>3, <2>7, <3>1, OnlyStatus DEF RequestSettled, IsOpen, OpenStatuses, TerminalStatuses
    <3> QED BY <2>2, <2>4, <2>6, <3>2 DEF Due
  <2>8. CASE i \notin voided
    BY <1>1, <2>4, <2>6, <2>8 DEF Due
  <2> QED BY <2>7, <2>8
<1> HIDE DEF m, n, bond, out
<1>6. \A a \in Addresses : SumTo(refund(a), m) \in Nat /\ SumTo(credit(a), n) \in Nat
  <2> SUFFICES ASSUME NEW a \in Addresses PROVE SumTo(refund(a), m) \in Nat /\ SumTo(credit(a), n) \in Nat
    OBVIOUS
  <2> HIDE DEF refund, credit
  <2>1. SumTo(refund(a), m) \in Nat
    BY <1>3, <1>4, SumNat
  <2>2. SumTo(credit(a), n) \in Nat
    BY <1>3, <1>5, SumNat
  <2> QED BY <2>1, <2>2
<1> HIDE DEF refund, credit, paid
<1>7. got \in [Addresses -> Nat]
  BY <1>6
<1>8. ASSUME NEW a \in Addresses \ {Escrow}
      PROVE  balances'[a] >= balances[a] /\ (balances'[a] > balances[a] => PaidBy(a))
  <2>1. got[a] \in Nat /\ balances[a] \in Nat /\ got[a] = SumTo(refund(a), m) + SumTo(credit(a), n)
    BY <1>7, BalancesTyped
  <2>2. balances'[a] = balances[a] + got[a]
    BY <1>1, <1>7, ReleasePaysOut
  <2>3. CASE \E i \in DOMAIN requests : credit(a)[i] # 0
    <3>1. PICK i \in DOMAIN requests : credit(a)[i] # 0
      BY <2>3
    <3>2. RequestSettled(i) /\ a \in party(i)
      BY <1>5, <3>1
    <3>3. PaidBy(a)
      BY <3>2 DEF PaidBy
    <3> QED BY <2>1, <2>2, <3>3
  <2>4. CASE \E s \in DOMAIN services : refund(a)[s] # 0
    <3>1. PICK s \in DOMAIN services : refund(a)[s] # 0
      BY <2>4
    <3>2. ServiceClosed(s) /\ a = services[s].owner
      BY <1>4, <3>1
    <3>3. PaidBy(a)
      BY <3>2 DEF PaidBy
    <3> QED BY <2>1, <2>2, <3>3
  <2>5. CASE (\A i \in DOMAIN requests : credit(a)[i] = 0) /\ (\A s \in DOMAIN services : refund(a)[s] = 0)
    <3>1. SumTo(refund(a), m) = 0
      BY <1>3, <2>5, SumOfNothing
    <3>2. SumTo(credit(a), n) = 0
      BY <1>3, <2>5, SumOfNothing
    <3> QED BY <2>1, <2>2, <3>1, <3>2
  <2> QED BY <2>3, <2>4, <2>5
<1>9. Excess' = Excess /\ Total' = Total
  BY DeactivateDomainExact, DeactivateDomainKeeps
<1>10. /\ DOMAIN requests' = DOMAIN requests /\ DOMAIN services' = DOMAIN services
       /\ \A i \in DOMAIN requests : requests'[i] = requests[i] \/ RequestSettled(i)
       /\ \A s \in DOMAIN services : services'[s] = services[s] \/ ServiceClosed(s)
  BY <1>1, <1>4, <1>5
<1>11. (\E P \in SUBSET PotIds : Deals!Settle(P)) \/ UNCHANGED <<DealWallet, DealPot, DealPhase, DealParties>>
  BY <1>8, <1>9, <1>10, SettlesOrStutters
<1> QED BY <1>11 DEF MapStep
-----------------------------------------------------------------------------
(* The other steps. *)

LEMMA RowWritten ==
  ASSUME WellFormed', NEW i \in DOMAIN requests', UNCHANGED services
  PROVE  requests'[i] \in Request /\ MatchesStatus(requests'[i])
BY DEF WellFormed, TypeOK, RecordsMatchStatus, MatchesStatus

LEMMA RegisterServiceMaps ==
  ASSUME WellFormed, WellFormed', PotsSuffice, NEW u \in Users, NEW name \in Names, NEW price \in Prices,
         NEW d \in 0..MaxDomains, RegisterService(u, name, price, d)
  PROVE  MapStep
<1> DEFINE row == [ owner |-> u, name |-> name, price |-> price, active |-> TRUE,
                    createdAt |-> height, domain |-> d, bond |-> ServiceRegistrationBond ]
<1>1. /\ nextSvcID <= MaxServices /\ Lock(u, ServiceRegistrationBond)
      /\ services' = Put(services, nextSvcID, row) /\ nextSvcID' = nextSvcID + 1
      /\ UNCHANGED <<requests, nextReqID>>
  BY DEF RegisterService, Registrable
<1>2. Excess' = Excess
  BY RegisterServiceExact
<1>3. row \in Service
  BY InputsAreNat, ParamsAreNat, BoundsAreNat DEF WellFormed, TypeOK, Service
<1>4. row.active /\ row.owner = u
  OBVIOUS
<1> HIDE DEF row
<1>5. Deals!Open(u, u, ServicePot(nextSvcID))
  BY <1>1, <1>2, <1>3, <1>4, ParamsAreNat, ServiceOpens
<1>6. u \in Addresses
  BY DEF Addresses
<1>7. ServicePot(nextSvcID) \in PotIds
  <2>1. nextSvcID \in 1..MaxServices
    BY <1>1, BoundsAreNat DEF WellFormed, TypeOK
  <2> QED BY <2>1, PotNames
<1> QED BY <1>5, <1>6, <1>7 DEF MapStep

LEMMA RequestInferenceMaps ==
  ASSUME WellFormed, WellFormed', PotsSuffice, NEW u \in Users, NEW s, NEW maxPrice, NEW d, NEW in,
         RequestInference(u, s, maxPrice, d, in)
  PROVE  MapStep
<1> DEFINE deadline == IF d = 0 THEN height + MaxRequestDeadlineBlocks ELSE d
           row == [ service |-> s, requester |-> u, inputHash |-> in,
                    escrow |-> services[s].price, deadline |-> deadline,
                    status |-> "PENDING", submittedAt |-> 0,
                    outputHash |-> NoOutput, providerBond |-> 0,
                    challenges |-> << >>, vouchers |-> {} ]
<1>1. /\ nextReqID <= MaxRequests /\ s \in DOMAIN services /\ Lock(u, services[s].price)
      /\ requests' = Put(requests, nextReqID, row) /\ nextReqID' = nextReqID + 1
      /\ UNCHANGED <<services, nextSvcID>>
  BY DEF RequestInference, registry
<1>2. Excess' = Excess
  BY RequestInferenceExact
<1>3. requests'[nextReqID] = row /\ nextReqID \in DOMAIN requests'
  BY <1>1 DEF Put
<1>4. row \in Request /\ MatchesStatus(row)
  BY <1>1, <1>3, RowWritten
<1>5. /\ row.status = "PENDING" /\ row.service = s /\ row.requester = u
      /\ row.challenges = << >> /\ row.vouchers = {}
  OBVIOUS
<1> HIDE DEF row
<1>6. IsOpen(row) /\ \A o : PartiesWith(row, o) = {u, o}
  BY <1>5 DEF IsOpen, OpenStatuses, PartiesWith
<1>7. services[s].price \in Nat /\ services[s].owner \in Users
  BY <1>1, Parts DEF Service
<1>8. Deals!Open(u, services[row.service].owner, RequestPot(nextReqID))
  BY <1>1, <1>2, <1>4, <1>5, <1>6, <1>7, RequestOpens
<1>9. RequestPot(nextReqID) \in PotIds
  <2>1. nextReqID \in 1..MaxRequests
    BY <1>1, BoundsAreNat DEF WellFormed, TypeOK
  <2> QED BY <2>1, PotNames
<1>10. u \in Addresses /\ services[row.service].owner \in Addresses
  BY <1>5, <1>7 DEF Addresses
<1> QED BY <1>8, <1>9, <1>10 DEF MapStep

(* A stake in an open request: the provider's, a challenger's, a voucher's. *)
LEMMA StakeMaps ==
  ASSUME WellFormed, WellFormed', PotsSuffice, NEW u \in Users, NEW n \in Nat, Lock(u, n),
         Excess' = Excess, NEW i \in DOMAIN requests, NEW row,
         IsOpen(requests[i]), IsOpen(row), row.service = requests[i].service,
         PartiesWith(row, Owner(requests[i])) = PartiesWith(requests[i], Owner(requests[i])) \cup {u},
         requests' = Put(requests, i, row), UNCHANGED <<nextReqID, registry>>
  PROVE  MapStep
<1>1. requests'[i] = row /\ i \in DOMAIN requests'
  BY DEF Put
<1>2. UNCHANGED <<services, nextSvcID>>
  BY DEF registry
<1>3. row \in Request /\ MatchesStatus(row)
  BY <1>1, <1>2, RowWritten
<1>4. Deals!Stake(u, RequestPot(i))
  BY <1>2, <1>3, RequestStake
<1>5. u \in Addresses /\ RequestPot(i) \in PotIds
  BY DEF Addresses, PotsSuffice
<1> QED BY <1>4, <1>5 DEF MapStep

LEMMA SubmitResultMaps ==
  ASSUME WellFormed, WellFormed', PotsSuffice, NEW u \in Users, NEW i, NEW att, NEW out \in Outputs,
         SubmitResult(u, i, att, out)
  PROVE  MapStep
<1> DEFINE row == Submitted(requests[i], out)
<1>1. /\ i \in DOMAIN requests /\ requests[i].status = "PENDING" /\ u = Owner(requests[i])
      /\ Lock(u, ProviderBondAmount) /\ requests' = Put(requests, i, row)
      /\ UNCHANGED <<nextReqID, registry>>
  BY DEF SubmitResult, Submittable
<1>2. Excess' = Excess
  BY SubmitResultExact
<1>3. requests[i] \in Request
  BY <1>1, Parts
<1>4. /\ row.status = "SUBMITTED" /\ row.service = requests[i].service
      /\ row.requester = requests[i].requester /\ row.challenges = requests[i].challenges
      /\ row.vouchers = requests[i].vouchers
  BY <1>3 DEF Submitted, Request
<1> HIDE DEF row
<1>5. IsOpen(requests[i]) /\ IsOpen(row)
  BY <1>1, <1>4 DEF IsOpen, OpenStatuses
<1>6. PartiesWith(row, u) = PartiesWith(requests[i], u) \cup {u}
  BY <1>4 DEF PartiesWith
<1> QED BY <1>1, <1>2, <1>4, <1>5, <1>6, BondsAreNat, StakeMaps

LEMMA FileChallengeMaps ==
  ASSUME WellFormed, WellFormed', PotsSuffice, NEW u \in Users, NEW i, NEW att \in Attestation,
         FileChallenge(u, i, att)
  PROVE  MapStep
<1> DEFINE r == requests[i]
           c == [ challenger |-> u, postedAt |-> height,
                  outputHash |-> att.outputHash, bond |-> ChallengerBondAmount ]
           row == [r EXCEPT !.status = "CHALLENGED", !.challenges = Append(@, c)]
<1>1. /\ i \in DOMAIN requests /\ r.status = "SUBMITTED"
      /\ Lock(u, ChallengerBondAmount) /\ requests' = Put(requests, i, row)
      /\ UNCHANGED <<nextReqID, registry>>
  BY DEF FileChallenge, Challengeable
<1>2. Excess' = Excess
  BY FileChallengeExact
<1>3. r \in Request /\ r.challenges = << >>
  BY <1>1, Parts DEF MatchesStatus
<1>4. /\ row.status = "CHALLENGED" /\ row.service = r.service
      /\ row.requester = r.requester /\ row.challenges = Append(r.challenges, c)
      /\ row.vouchers = r.vouchers
  BY <1>3 DEF Request
<1>5. Append(<< >>, c) = <<c>>
  BY AppendToEmpty
<1>6. c.challenger = u
  OBVIOUS
<1> HIDE DEF row, r, c
<1>7. {row.challenges[k].challenger : k \in DOMAIN row.challenges} = {u}
  BY <1>3, <1>4, <1>5, <1>6
<1>8. {r.challenges[k].challenger : k \in DOMAIN r.challenges} = {}
  BY <1>3
<1>9. PartiesWith(row, Owner(r)) = PartiesWith(r, Owner(r)) \cup {u}
  BY <1>4, <1>7, <1>8 DEF PartiesWith
<1>10. IsOpen(r) /\ IsOpen(row)
  BY <1>1, <1>4 DEF IsOpen, OpenStatuses
<1> QED BY <1>1, <1>2, <1>4, <1>9, <1>10, BondsAreNat, StakeMaps DEF r

LEMMA VouchMaps ==
  ASSUME WellFormed, WellFormed', PotsSuffice, NEW u \in Users, NEW i, NEW att, Vouch(u, i, att)
  PROVE  MapStep
<1> DEFINE r == requests[i]
           v == [ voucher |-> u, supportsProvider |-> att.outputHash = r.outputHash ]
           row == [r EXCEPT !.vouchers = @ \cup {v}]
<1>1. /\ i \in DOMAIN requests /\ r.status = "CHALLENGED"
      /\ Lock(u, VoucherBond(r)) /\ requests' = Put(requests, i, row)
      /\ UNCHANGED <<nextReqID, registry>>
  BY DEF Vouch, Vouchable
<1>2. Excess' = Excess
  BY VouchExact
<1>3. r \in Request /\ VoucherBond(r) \in Nat
  BY <1>1, Parts, RequestParts
<1>4. /\ row.status = r.status /\ row.service = r.service
      /\ row.requester = r.requester /\ row.challenges = r.challenges
      /\ row.vouchers = r.vouchers \cup {v}
  BY <1>3 DEF Request
<1>5. v.voucher = u
  OBVIOUS
<1> HIDE DEF row, r, v
<1>6. PartiesWith(row, Owner(r)) = PartiesWith(r, Owner(r)) \cup {u}
  BY <1>4, <1>5 DEF PartiesWith
<1>7. IsOpen(r) /\ IsOpen(row)
  BY <1>1, <1>4 DEF IsOpen, OpenStatuses
<1> QED BY <1>1, <1>2, <1>3, <1>4, <1>6, <1>7, StakeMaps DEF r

(* A step that moves no coins and leaves every deal as it is.              *)
LEMMA DealsUntouched ==
  ASSUME WellFormed, WellFormed', UNCHANGED <<requests, balances>>, Excess' = Excess,
         DOMAIN services' = DOMAIN services,
         \A s \in DOMAIN services : /\ services'[s].owner = services[s].owner
                                    /\ services'[s].active = services[s].active
                                    /\ services'[s].bond = services[s].bond
  PROVE  MapStep
<1>1. \A i \in DOMAIN requests : OwnerNext(requests'[i]) = Owner(requests[i])
  <2>1. \A i \in DOMAIN requests : requests[i].service \in DOMAIN services
    BY Parts
  <2> QED BY <2>1 DEF OwnerNext, Owner
<1>2. ASSUME NEW p \in PotIds
      PROVE  DealPot'[p] = DealPot[p] /\ DealPhase'[p] = DealPhase[p] /\ DealParties'[p] = DealParties[p]
  <2>1. CASE \E k \in 1..MaxRequests : p = RequestPot(k)
    <3>1. PICK k \in 1..MaxRequests : p = RequestPot(k)
      BY <2>1
    <3>2. DealPot'[p] = DealPot[p] /\ DealPhase'[p] = DealPhase[p]
      BY <3>1, DealsNow, DealsNext
    <3>3. DealParties'[p] = DealParties[p]
      BY <1>1, <3>1, PartiesNow, PartiesNext
    <3> QED BY <3>2, <3>3
  <2>2. CASE \E k \in 1..MaxServices : p = ServicePot(k)
    <3>1. PICK k \in 1..MaxServices : p = ServicePot(k)
      BY <2>2
    <3>2. DealPot'[p] = DealPot[p]
      BY <3>1, DealsNow, DealsNext
    <3>3. DealPhase'[p] = DealPhase[p]
      BY <3>1, DealsNow, DealsNext DEF ServicePhase
    <3>4. DealParties'[p] = DealParties[p]
      BY <3>1, PartiesNow, PartiesNext, ZenonT(30)
    <3> QED BY <3>2, <3>3, <3>4
  <2> QED BY <2>1, <2>2, PotNames
<1>3. DealPot' = DealPot /\ DealPhase' = DealPhase /\ DealParties' = DealParties
  BY <1>2, DealsNow, DealsNext
<1>4. DealWallet' = DealWallet
  BY WalletNow, MappedNext
<1> QED BY <1>3, <1>4 DEF MapStep

LEMMA TransferMaps ==
  ASSUME WellFormed, WellFormed', NEW u \in Users, NEW to \in Addresses,
         NEW amount \in TransferAmounts, Transfer(u, to, amount)
  PROVE  MapStep
<1>1. /\ amount \in Nat /\ amount > 0 /\ u \in Addresses /\ u # Escrow
      /\ UNCHANGED <<requests, nextReqID, services, nextSvcID>>
      /\ balances' = [balances EXCEPT ![u] = @ - amount, ![to] = @ + amount]
  BY InputsAreNat, AddressesDistinct DEF Transfer, Addresses, registry
<1>2. balances \in [Addresses -> Int] /\ Held \in Int /\ Held' = Held
  BY <1>1, BalancesTyped, HeldType DEF Held
<1>3. UNCHANGED <<DealPot, DealPhase, DealParties>>
  BY <1>1 DEF DealPot, DealPhase, DealParties, PerDeal, BondOf, OwnerAlone, PartiesTo, Owner
<1>4. CASE to = u
  <2>1. balances' = balances
    BY <1>1, <1>2, <1>4
  <2>2. DealWallet' = DealWallet
    BY <1>2, <2>1, WalletNow, MappedNext DEF Excess
  <2> QED BY <1>3, <2>2 DEF MapStep
<1>5. CASE to # u
  <2>1. \A a \in Addresses : balances'[a] = IF a = u THEN balances[a] - amount
                                           ELSE IF a = to THEN balances[a] + amount ELSE balances[a]
    BY <1>1, <1>2, <1>5
  <2>2. /\ DealWallet \in [Addresses -> Int] /\ DealWallet[Escrow] = balances[Escrow] - Held
        /\ \A a \in Addresses : a # Escrow => DealWallet[a] = balances[a]
    BY WalletNow DEF Excess
  <2>3. /\ DealWallet' \in [Addresses -> Int] /\ DealWallet'[Escrow] = balances'[Escrow] - Held
        /\ \A a \in Addresses : a # Escrow => DealWallet'[a] = balances'[a]
    BY <1>2, MappedNext DEF Excess
  <2>4. Escrow \in Addresses
    BY DEF Addresses
  <2>5. ASSUME NEW a \in Addresses
        PROVE  DealWallet'[a] = IF a = u THEN DealWallet[a] - amount
                                ELSE IF a = to THEN DealWallet[a] + amount ELSE DealWallet[a]
    <3>1. CASE a = Escrow
      BY <1>1, <1>2, <2>1, <2>2, <2>3, <2>4, <3>1
    <3>2. CASE a # Escrow
      BY <2>1, <2>2, <2>3, <3>2
    <3> QED BY <3>1, <3>2
  <2>6. DealWallet[u] - DealWallet'[u] = amount
    BY <1>1, <2>2, <2>5
  <2>7. DealWallet' = [DealWallet EXCEPT ![u] = @ - (DealWallet[u] - DealWallet'[u]),
                                         ![to] = @ + (DealWallet[u] - DealWallet'[u])]
    BY <1>1, <1>5, <2>2, <2>3, <2>5, <2>6
  <2>8. Deals!Give(u, to)
    BY <1>1, <1>3, <1>5, <2>6, <2>7 DEF Deals!Give
  <2> QED BY <1>1, <2>8 DEF MapStep
<1> QED BY <1>4, <1>5
LEMMA UpdateServiceMaps ==
  ASSUME WellFormed, WellFormed', NEW u \in Users, NEW s, NEW price \in Prices,
         UpdateService(u, s, price)
  PROVE  MapStep
<1>1. /\ s \in DOMAIN services /\ services' = [services EXCEPT ![s].price = price]
      /\ UNCHANGED <<requests, balances>>
  BY DEF UpdateService, Updatable
<1>2. ASSUME NEW k \in DOMAIN services
      PROVE  /\ services'[k].owner = services[k].owner
             /\ services'[k].active = services[k].active
             /\ services'[k].bond = services[k].bond
  <2>1. services[k] \in Service
    BY Parts
  <2> QED BY <1>1, <2>1 DEF Service
<1>3. Excess' = Excess
  BY UpdateServiceExact
<1>4. DOMAIN services' = DOMAIN services
  BY <1>1
<1> QED BY <1>1, <1>2, <1>3, <1>4, DealsUntouched

LEMMA NothingMoves ==
  ASSUME WellFormed, WellFormed', UNCHANGED <<balances, requests, nextReqID, services, nextSvcID>>
  PROVE  MapStep
<1>1. Excess' = Excess
  BY DEF Excess, Held
<1> QED BY <1>1, DealsUntouched

(* Ids never run past the bounds, so there is a pot for every record.      *)
IdsBounded == nextReqID <= MaxRequests + 1 /\ nextSvcID <= MaxServices + 1

LEMMA NextIds ==
  ASSUME WellFormed, IdsBounded, [Next]_vars
  PROVE  IdsBounded'
<1>1. nextReqID \in Nat /\ nextSvcID \in Nat
  BY Parts
<1> DEFINE grows ==
       /\ nextReqID' = nextReqID \/ (nextReqID' = nextReqID + 1 /\ nextReqID <= MaxRequests)
       /\ nextSvcID' = nextSvcID \/ (nextSvcID' = nextSvcID + 1 /\ nextSvcID <= MaxServices)
<1>2. ASSUME NEW u \in Users, Tx(u) PROVE grows
  <2>1. /\ \A name, price, d : RegisterService(u, name, price, d) => grows
        /\ \A s, price : UpdateService(u, s, price) => grows
        /\ \A s : DeactivateService(u, s) => grows
        /\ \A margin : RegisterDomain(u, margin) => grows
        /\ \A d : DeactivateDomain(u, d) => grows
        /\ \A to, amount : Transfer(u, to, amount) => grows
    BY DEF registry, RegisterService, Registrable, UpdateService, Updatable, DeactivateService, RegisterDomain, MayRegisterDomain,
           DeactivateDomain, Transfer
  <2>2. /\ \A s, maxPrice, d, in : RequestInference(u, s, maxPrice, d, in) => grows
        /\ \A i, att, out : SubmitResult(u, i, att, out) => grows
        /\ \A i, att, out : SubmitAndFinalize(u, i, att, out) => grows
        /\ \A i, att : FileChallenge(u, i, att) => grows
        /\ \A i, att : Vouch(u, i, att) => grows
        /\ \A i, decision : ResolveChallenge(u, i, decision) => grows
    BY DEF registry, RequestInference, SubmitResult, SubmitAndFinalize, FileChallenge, Challengeable, Vouch, Vouchable,
           ResolveChallenge
  <2> HIDE DEF grows
  <2> QED BY <1>2, <2>1, <2>2 DEF Tx
<1>3. CommitBlock \/ AtHorizon \/ UNCHANGED vars => grows
  BY DEF CommitBlock, AtHorizon, vars, registry
<1>4. grows
  BY <1>2, <1>3 DEF Next
<1> QED BY <1>1, <1>4, BoundsAreNat DEF IdsBounded

LEMMA IdsHavePots ==
  WellFormed /\ IdsBounded => PotsSuffice
<1> SUFFICES ASSUME WellFormed, IdsBounded PROVE PotsSuffice
  OBVIOUS
<1>1. /\ \A i \in DOMAIN requests : i \in 1..MaxRequests
      /\ \A s \in DOMAIN services : s \in 1..MaxServices
  BY Parts, BoundsAreNat DEF IdsBounded
<1> QED BY <1>1, PotNames DEF PotsSuffice

LEMMA IdsHavePotsNext == (WellFormed /\ IdsBounded => PotsSuffice)'
BY IdsHavePots, PTL

LEMMA StepMaps ==
  ASSUME WellFormed, IdsBounded, [Next]_vars
  PROVE  MapStep
<1>1. WellFormed' /\ IdsBounded'
  BY NextWellFormed, NextIds
<1>2. PotsSuffice /\ PotsSuffice'
  BY <1>1, IdsHavePots, IdsHavePotsNext
<1>3. ASSUME NEW u \in Users, NEW margin, RegisterDomain(u, margin) PROVE MapStep
  BY <1>1, <1>3, NothingMoves DEF RegisterDomain, MayRegisterDomain
<1>4. ASSUME NEW u \in Users, Tx(u) PROVE MapStep
  BY <1>1, <1>2, <1>3, <1>4, RegisterServiceMaps, UpdateServiceMaps, DeactivateServiceMaps,
     DeactivateDomainMaps, TransferMaps, RequestInferenceMaps, SubmitResultMaps,
     SubmitAndFinalizeMaps, FileChallengeMaps, VouchMaps, ResolveChallengeMaps DEF Tx
<1>5. CASE CommitBlock
  BY <1>1, <1>2, <1>5, CommitBlockMaps
<1>6. CASE UNCHANGED vars
  BY <1>1, <1>6, NothingMoves DEF vars, registry
<1>7. CASE AtHorizon
  BY <1>6, <1>7 DEF AtHorizon
<1> QED BY <1>4, <1>5, <1>6, <1>7 DEF Next

LEMMA InitMaps ==
  ASSUME Init
  PROVE  WellFormed /\ IdsBounded /\ Deals!PotsInit
<1>1. WellFormed
  BY InitWellFormed
<1>2. IdsBounded
  BY BoundsAreNat DEF Init, IdsBounded
<1>3. DOMAIN requests = {} /\ DOMAIN services = {}
  BY DEF Init
<1>4. ASSUME NEW p \in PotIds PROVE DealPot[p] = 0 /\ DealPhase[p] = "unused" /\ DealParties[p] = {}
  BY <1>3, DealsNow, PotNames
<1>5. /\ DealPot = [p \in PotIds |-> 0]
      /\ DealPhase = [p \in PotIds |-> "unused"]
      /\ DealParties = [p \in PotIds |-> {}]
  BY <1>4, DealsNow
<1>6. DealWallet \in [Addresses -> Nat]
  <2>1. /\ DealWallet \in [Addresses -> Int] /\ DealWallet[Escrow] = Excess
        /\ \A a \in Addresses : a # Escrow => DealWallet[a] = balances[a]
    BY <1>1, WalletNow
  <2>2. Excess = 0
    BY InitExact DEF Excess
  <2>3. balances \in [Addresses -> Nat]
    BY <1>1, BalancesTyped
  <2>4. \A a \in Addresses : DealWallet[a] \in Nat
    BY <2>1, <2>2, <2>3
  <2> QED BY <2>1, <2>4
<1> QED BY <1>1, <1>2, <1>5, <1>6 DEF Deals!PotsInit

(* What a state must be for the next step to be one of the pots.           *)
PotsInv == WellFormed /\ IdsBounded

LEMMA StepOfPots ==
  PotsInv /\ [Next]_vars => PotsInv' /\ [Deals!PotsNext]_(Deals!potVars)
<1> SUFFICES ASSUME PotsInv, [Next]_vars
             PROVE  PotsInv' /\ [Deals!PotsNext]_(Deals!potVars)
  OBVIOUS
<1>1. PotsInv'
  BY NextWellFormed, NextIds DEF PotsInv
<1>2. MapStep
  BY StepMaps DEF PotsInv
<1> QED BY <1>1, <1>2 DEF MapStep, Deals!PotsNext, Deals!potVars

(* The chain implements EscrowPots: whatever the number of users, requests *)
(* and services, and whatever the parameters, every transaction and every  *)
(* block, with its many settlements at once, is one step in which each     *)
(* deal pays only with what its own parties staked, only to them or to the *)
(* treasury, and only once.                                                *)
THEOREM MarketplaceImplementsPots == Spec => ImplementsPots
<1>1. Init => PotsInv /\ Deals!PotsInit
  BY InitMaps DEF PotsInv
<1> QED BY <1>1, StepOfPots, PTL DEF Spec, ImplementsPots, Deals!PotsSpec

(* So does a chain that is watched from any state on that is well formed   *)
(* and inside the bounds, such as the one demoSeed leaves.                 *)
THEOREM PotsFromAnyState == PotsInv /\ [][Next]_vars => ImplementsPotsFromSeed
BY StepOfPots, PTL DEF ImplementsPotsFromSeed

=============================================================================
