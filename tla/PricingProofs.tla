--------------------------- MODULE PricingProofs ----------------------------
(***************************************************************************)
(* Theorems about Pricing, for every declaration the schema lets through.  *)
(***************************************************************************)
EXTENDS Pricing, TLAPS

(* Numbers in three digits *)

Digits == {n \in Nat \X Nat \X Nat : n[1] < Base /\ n[2] < Base}

\* The number that three digits stand for, in units of 10^-10 cents.
ValueOf(n) == n[1] + Base * n[2] + Base * Base * n[3]

PosInt == Nat \ {0}

\* Times multiplies, without loss.
LEMMA TimesValue ==
    ASSUME NEW n \in Digits, NEW m \in Nat
    PROVE  /\ Times(n, m) \in Digits
           /\ ValueOf(Times(n, m)) = ValueOf(n) * m
<1> DEFINE low == n[1] * m
           carry == low \div Base
           mid == n[2] * m + carry
           more == mid \div Base
<1>1. n[1] \in Nat /\ n[2] \in Nat /\ n[3] \in Nat
  BY DEF Digits
<1>2. low \in Nat /\ n[2] * m \in Nat /\ n[3] * m \in Nat
  BY <1>1
<1> HIDE DEF low
<1>3. /\ carry \in Nat /\ low % Base \in Nat /\ low % Base < Base
      /\ low = Base * carry + (low % Base)
  BY <1>2, SMT DEF Base
<1> HIDE DEF carry
<1>4. mid \in Nat
  BY <1>2, <1>3
<1>5. mid = n[2] * m + carry
  OBVIOUS
<1> HIDE DEF mid
<1>6. /\ more \in Nat /\ mid % Base \in Nat /\ mid % Base < Base
      /\ mid = Base * more + (mid % Base)
  BY <1>4, SMT DEF Base
<1>7. Times(n, m) = <<low % Base, mid % Base, n[3] * m + more>>
  BY DEF Times, low, carry, mid
<1> HIDE DEF more
<1>8. Times(n, m) \in Digits
  BY <1>2, <1>3, <1>6, <1>7 DEF Digits
<1>9. ValueOf(Times(n, m)) = (low % Base) + Base * (mid % Base)
                                 + Base * Base * (n[3] * m + more)
  BY <1>7 DEF ValueOf
<1> DEFINE a == n[1] * m
           b == n[2] * m
           c == n[3] * m
<1>10. ValueOf(n) * m = a + Base * b + Base * Base * c
  BY <1>1, SMT DEF ValueOf, Base
<1>11. low = a
  BY DEF low
<1> HIDE DEF a
<1>12. mid = b + carry /\ b \in Nat /\ c \in Nat
  BY <1>2, <1>5
<1> HIDE DEF b, c
<1>13. (low % Base) + Base * (mid % Base) + Base * Base * (c + more)
          = a + Base * b + Base * Base * c
  BY <1>3, <1>6, <1>11, <1>12, SMT DEF Base
<1> QED BY <1>8, <1>9, <1>10, <1>13 DEF c

\* The factors of a product.
Factors(r, m) == r \in PosInt /\ r < Base /\ \A i \in 1..6 : m[i] \in PosInt

\* Product computes the product of its factors.
LEMMA ProductValue ==
    ASSUME NEW r, NEW m, Factors(r, m)
    PROVE  /\ Product(r, m) \in Digits
           /\ ValueOf(Product(r, m)) = r * m[1] * m[2] * m[3] * m[4] * m[5] * m[6]
<1> DEFINE n0 == <<r, 0, 0>>
           n1 == Times(n0, m[1])
           n2 == Times(n1, m[2])
           n3 == Times(n2, m[3])
           n4 == Times(n3, m[4])
           n5 == Times(n4, m[5])
           n6 == Times(n5, m[6])
<1>1. n6 = Product(r, m)
  BY DEF Product
<1>2. /\ m[1] \in Nat /\ m[2] \in Nat /\ m[3] \in Nat
      /\ m[4] \in Nat /\ m[5] \in Nat /\ m[6] \in Nat
  BY DEF Factors, PosInt
<1>3. n0 \in Digits /\ ValueOf(n0) = r
  BY SMT DEF Factors, PosInt, Digits, ValueOf, Base
<1> HIDE DEF n0
<1>4. n1 \in Digits /\ ValueOf(n1) = r * m[1]
  BY <1>2, <1>3, TimesValue
<1> HIDE DEF n1
<1>5. n2 \in Digits /\ ValueOf(n2) = r * m[1] * m[2]
  BY <1>2, <1>4, TimesValue
<1> HIDE DEF n2
<1>6. n3 \in Digits /\ ValueOf(n3) = r * m[1] * m[2] * m[3]
  BY <1>2, <1>5, TimesValue
<1> HIDE DEF n3
<1>7. n4 \in Digits /\ ValueOf(n4) = r * m[1] * m[2] * m[3] * m[4]
  BY <1>2, <1>6, TimesValue
<1> HIDE DEF n4
<1>8. n5 \in Digits /\ ValueOf(n5) = r * m[1] * m[2] * m[3] * m[4] * m[5]
  BY <1>2, <1>7, TimesValue
<1> HIDE DEF n5
<1>9. n6 \in Digits /\ ValueOf(n6) = r * m[1] * m[2] * m[3] * m[4] * m[5] * m[6]
  BY <1>2, <1>8, TimesValue
<1> QED BY <1>1, <1>9

\* A factor larger than another makes a larger product.
LEMMA LargerFactor ==
    ASSUME NEW a \in PosInt, NEW b \in PosInt, NEW m \in PosInt, NEW k \in PosInt,
           a <= b, m <= k
    PROVE  /\ a * m \in PosInt /\ b * k \in PosInt
           /\ a * m <= b * k
           /\ a < b \/ m < k => a * m < b * k
<1>1. PICK c \in Nat : b = a + c
  <2>1. b - a \in Nat /\ b = a + (b - a)
    BY DEF PosInt
  <2> QED BY <2>1
<1>2. PICK d \in Nat : k = m + d
  <2>1. k - m \in Nat /\ k = m + (k - m)
    BY DEF PosInt
  <2> QED BY <2>1
<1>3. b * k = a * m + a * d + c * m + c * d
  BY <1>1, <1>2 DEF PosInt
<1>4. /\ a * m \in PosInt /\ a * d \in Nat /\ c * m \in Nat /\ c * d \in Nat
      /\ d # 0 => a * d # 0
      /\ c # 0 => c * m # 0
  BY <1>1, <1>2 DEF PosInt
<1>5. (a < b => c # 0) /\ (m < k => d # 0)
  BY <1>1, <1>2 DEF PosInt
<1> DEFINE am == a * m
           ad == a * d
           cm == c * m
           cd == c * d
           bk == b * k
<1>6. /\ bk = am + ad + cm + cd
      /\ am \in PosInt /\ ad \in Nat /\ cm \in Nat /\ cd \in Nat
      /\ a < b \/ m < k => ad # 0 \/ cm # 0
  BY <1>3, <1>4, <1>5
<1> HIDE DEF am, ad, cm, cd, bk
<1>7. /\ am \in PosInt /\ bk \in PosInt
      /\ am <= bk
      /\ a < b \/ m < k => am < bk
  BY <1>6 DEF PosInt
<1> QED BY <1>7 DEF am, bk

\* One factor larger and none smaller make a larger product.
LEMMA LargerProduct ==
    ASSUME NEW r, NEW m, NEW k, Factors(r, m), Factors(r, k),
           \A i \in 1..6 : m[i] <= k[i],
           NEW j \in 1..6, m[j] < k[j]
    PROVE  ValueOf(Product(r, m)) < ValueOf(Product(r, k))
<1> DEFINE a1 == r * m[1]
           a2 == a1 * m[2]
           a3 == a2 * m[3]
           a4 == a3 * m[4]
           a5 == a4 * m[5]
           a6 == a5 * m[6]
           b1 == r * k[1]
           b2 == b1 * k[2]
           b3 == b2 * k[3]
           b4 == b3 * k[4]
           b5 == b4 * k[5]
           b6 == b5 * k[6]
<1>1. ValueOf(Product(r, m)) = a6 /\ ValueOf(Product(r, k)) = b6
  BY ProductValue
<1>2. /\ r \in PosInt
      /\ m[1] \in PosInt /\ k[1] \in PosInt /\ m[1] <= k[1]
      /\ m[2] \in PosInt /\ k[2] \in PosInt /\ m[2] <= k[2]
      /\ m[3] \in PosInt /\ k[3] \in PosInt /\ m[3] <= k[3]
      /\ m[4] \in PosInt /\ k[4] \in PosInt /\ m[4] <= k[4]
      /\ m[5] \in PosInt /\ k[5] \in PosInt /\ m[5] <= k[5]
      /\ m[6] \in PosInt /\ k[6] \in PosInt /\ m[6] <= k[6]
  <2>1. r \in PosInt
    BY DEF Factors
  <2>2. \A i \in 1..6 : m[i] \in PosInt /\ k[i] \in PosInt /\ m[i] <= k[i]
    BY DEF Factors
  <2> QED BY <2>1, <2>2
<1>3. a1 \in PosInt /\ b1 \in PosInt /\ a1 <= b1 /\ (m[1] < k[1] => a1 < b1)
  <2>1. r <= r
    BY <1>2 DEF PosInt
  <2> QED BY <1>2, <2>1, LargerFactor
<1> HIDE DEF a1, b1
<1>4. /\ a2 \in PosInt /\ b2 \in PosInt /\ a2 <= b2
      /\ a1 < b1 \/ m[2] < k[2] => a2 < b2
  BY <1>2, <1>3, LargerFactor
<1> HIDE DEF a2, b2
<1>5. /\ a3 \in PosInt /\ b3 \in PosInt /\ a3 <= b3
      /\ a2 < b2 \/ m[3] < k[3] => a3 < b3
  BY <1>2, <1>4, LargerFactor
<1> HIDE DEF a3, b3
<1>6. /\ a4 \in PosInt /\ b4 \in PosInt /\ a4 <= b4
      /\ a3 < b3 \/ m[4] < k[4] => a4 < b4
  BY <1>2, <1>5, LargerFactor
<1> HIDE DEF a4, b4
<1>7. /\ a5 \in PosInt /\ b5 \in PosInt /\ a5 <= b5
      /\ a4 < b4 \/ m[5] < k[5] => a5 < b5
  BY <1>2, <1>6, LargerFactor
<1> HIDE DEF a5, b5
<1>8. /\ a6 \in PosInt /\ b6 \in PosInt /\ a6 <= b6
      /\ a5 < b5 \/ m[6] < k[6] => a6 < b6
  BY <1>2, <1>7, LargerFactor
<1> HIDE DEF a6, b6
<1>9. \/ m[1] < k[1] \/ m[2] < k[2] \/ m[3] < k[3]
      \/ m[4] < k[4] \/ m[5] < k[5] \/ m[6] < k[6]
  <2>1. j = 1 \/ j = 2 \/ j = 3 \/ j = 4 \/ j = 5 \/ j = 6
    OBVIOUS
  <2> QED BY <2>1
<1>10. a6 < b6
  BY <1>3, <1>4, <1>5, <1>6, <1>7, <1>8, <1>9
<1> QED BY <1>1, <1>10

-----------------------------------------------------------------------------
(* Rounding *)

\* Rounding to cents moves a number by half a cent at most.
LEMMA CentsNear ==
    ASSUME NEW n \in Digits, NEW r \in Cents(n)
    PROVE  /\ r \in Nat
           /\ 2 * ValueOf(n) - Base * Base <= 2 * Base * Base * r
           /\ 2 * Base * Base * r <= 2 * ValueOf(n) + Base * Base
<1>1. /\ n[1] \in Nat /\ n[1] < Base
      /\ n[2] \in Nat /\ n[2] < Base
      /\ n[3] \in Nat
  BY DEF Digits
<1>2. Base \div 2 = 50000 /\ Base = 100000
  BY SMT DEF Base
<1>3. CASE n[2] = 50000 /\ n[1] = 0
  <2>1. r = n[3] \/ r = n[3] + 1
    BY <1>2, <1>3 DEF Cents
  <2> QED BY <1>1, <1>2, <1>3, <2>1, SMT DEF ValueOf
<1>4. CASE ~ (n[2] = 50000 /\ n[1] = 0)
  <2>1. r = IF n[2] >= 50000 THEN n[3] + 1 ELSE n[3]
    BY <1>2, <1>4 DEF Cents
  <2> QED BY <1>1, <1>2, <1>4, <2>1, SMT DEF ValueOf
<1> QED BY <1>3, <1>4

\* Rounding the tax moves it by half a cent at most.
LEMMA RoundedTax ==
    ASSUME NEW n \in Nat, NEW r \in Rounded(n, 100)
    PROVE  r \in Nat /\ 100 * r - n \in -50..50
<1>1. /\ n \div 100 \in Nat /\ n % 100 \in 0..99
      /\ n = 100 * (n \div 100) + (n % 100)
      /\ 100 \div 2 = 50
  OBVIOUS
<1>2. CASE n % 100 = 50
  <2>1. r = n \div 100 \/ r = n \div 100 + 1
    BY <1>1, <1>2 DEF Rounded
  <2> QED BY <1>1, <1>2, <2>1
<1>3. CASE n % 100 # 50
  <2>1. r = (n + 50) \div 100
    BY <1>1, <1>3 DEF Rounded
  <2> QED BY <2>1
<1> QED BY <1>2, <1>3

\* ... and rounding an instalment likewise.
LEMMA RoundedTwelfth ==
    ASSUME NEW n \in Nat, NEW r \in Rounded(n, 12)
    PROVE  r \in Nat /\ 12 * r - n \in -6..6
<1>1. /\ n \div 12 \in Nat /\ n % 12 \in 0..11
      /\ n = 12 * (n \div 12) + (n % 12)
      /\ 12 \div 2 = 6
  OBVIOUS
<1>2. CASE n % 12 = 6
  <2>1. r = n \div 12 \/ r = n \div 12 + 1
    BY <1>1, <1>2 DEF Rounded
  <2> QED BY <1>1, <1>2, <2>1
<1>3. CASE n % 12 # 6
  <2>1. r = (n + 6) \div 12
    BY <1>1, <1>3 DEF Rounded
  <2> QED BY <2>1
<1> QED BY <1>2, <1>3

-----------------------------------------------------------------------------
(* Rule sets *)

Ascending(table, n) == \A i, j \in 1..n : i < j => table[i] < table[j]

\* What the proofs need of a rule set: its figures are there and positive, and a
\* worse risk, a better cover and a larger deductible have the larger figure.
WellFormed(rules) ==
    /\ \A i \in 1..5 : /\ rules.base[i] \in PosInt /\ rules.base[i] < Base
                       /\ rules.property[i] \in PosInt
                       /\ rules.area[i] \in PosInt
                       /\ rules.tax[i] \in PosInt
    /\ \A i \in 1..4 : /\ rules.year[i] \in PosInt
                       /\ rules.claims[i] \in PosInt
                       /\ rules.deductible[i] \in Nat
    /\ \A i \in 1..3 : rules.occupancy[i] \in PosInt /\ rules.tier[i] \in PosInt
    /\ Ascending(rules.property, 5) /\ Ascending(rules.area, 5)
    /\ Ascending(rules.year, 4)     /\ Ascending(rules.claims, 4)
    /\ Ascending(rules.tier, 3)     /\ Ascending(rules.deductible, 4)
    /\ rules.maxClaimsForInstantQuote = 3

\* Both rule sets of the registry are well formed.
LEMMA RegistryWellFormed ==
    ASSUME NEW v \in Versions
    PROVE  WellFormed(getRuleSet(v))
<1>1. WellFormed(RULE_SET_V1)
  <2> DEFINE rules == RULE_SET_V1
  <2>1. \A i \in 1..5 : /\ rules.base[i] \in PosInt /\ rules.base[i] < Base
                        /\ rules.property[i] \in PosInt
                        /\ rules.area[i] \in PosInt
                        /\ rules.tax[i] \in PosInt
    BY SMT DEF RULE_SET_V1, PosInt, Base
  <2>2. \A i \in 1..4 : /\ rules.year[i] \in PosInt
                        /\ rules.claims[i] \in PosInt
                        /\ rules.deductible[i] \in Nat
    BY SMT DEF RULE_SET_V1, PosInt
  <2>3. \A i \in 1..3 : rules.occupancy[i] \in PosInt /\ rules.tier[i] \in PosInt
    BY SMT DEF RULE_SET_V1, PosInt
  <2>4. Ascending(rules.property, 5) /\ Ascending(rules.area, 5)
    BY SMT DEF RULE_SET_V1, Ascending
  <2>5. Ascending(rules.year, 4) /\ Ascending(rules.claims, 4)
    BY SMT DEF RULE_SET_V1, Ascending
  <2>6. Ascending(rules.tier, 3) /\ Ascending(rules.deductible, 4)
    BY SMT DEF RULE_SET_V1, Ascending
  <2>7. rules.maxClaimsForInstantQuote = 3
    BY DEF RULE_SET_V1
  <2> HIDE DEF rules
  <2>8. WellFormed(rules)
    BY <2>1, <2>2, <2>3, <2>4, <2>5, <2>6, <2>7 DEF WellFormed
  <2> QED BY <2>8 DEF rules
<1>2. WellFormed(RULE_SET_V2)
  <2> DEFINE rules == RULE_SET_V2
  <2>1. \A i \in 1..5 : /\ rules.base[i] \in PosInt /\ rules.base[i] < Base
                        /\ rules.property[i] \in PosInt
                        /\ rules.area[i] \in PosInt
                        /\ rules.tax[i] \in PosInt
    BY SMT DEF RULE_SET_V2, PosInt, Base
  <2>2. \A i \in 1..4 : /\ rules.year[i] \in PosInt
                        /\ rules.claims[i] \in PosInt
                        /\ rules.deductible[i] \in Nat
    BY SMT DEF RULE_SET_V2, PosInt
  <2>3. \A i \in 1..3 : rules.occupancy[i] \in PosInt /\ rules.tier[i] \in PosInt
    BY SMT DEF RULE_SET_V2, PosInt
  <2>4. Ascending(rules.property, 5) /\ Ascending(rules.area, 5)
    BY SMT DEF RULE_SET_V2, Ascending
  <2>5. Ascending(rules.year, 4) /\ Ascending(rules.claims, 4)
    BY SMT DEF RULE_SET_V2, Ascending
  <2>6. Ascending(rules.tier, 3) /\ Ascending(rules.deductible, 4)
    BY SMT DEF RULE_SET_V2, Ascending
  <2>7. rules.maxClaimsForInstantQuote = 3
    BY DEF RULE_SET_V2
  <2> HIDE DEF rules
  <2>8. WellFormed(rules)
    BY <2>1, <2>2, <2>3, <2>4, <2>5, <2>6, <2>7 DEF WellFormed
  <2> QED BY <2>8 DEF rules
<1> QED BY <1>1, <1>2 DEF getRuleSet

\* The figures a declaration picks can be multiplied.
LEMMA InputFactors ==
    ASSUME NEW rules, WellFormed(rules), NEW input \in QuoteInputs
    PROVE  Factors(rules.base[input.country], Multipliers(input, rules))
<1>1. /\ input.country \in 1..5 /\ input.property \in 1..5 /\ input.occupancy \in 1..3
      /\ input.area \in 1..5 /\ input.year \in 1..4 /\ input.tier \in 1..3
      /\ input.claims \in Nat
  BY DEF QuoteInputs
<1>2. (IF input.claims < 3 THEN input.claims + 1 ELSE 4) \in 1..4
  BY <1>1
<1>3. /\ rules.base[input.country] \in PosInt /\ rules.base[input.country] < Base
      /\ rules.property[input.property] \in PosInt
      /\ rules.occupancy[input.occupancy] \in PosInt
      /\ rules.area[input.area] \in PosInt
      /\ rules.year[input.year] \in PosInt
      /\ rules.claims[IF input.claims < 3 THEN input.claims + 1 ELSE 4] \in PosInt
      /\ rules.tier[input.tier] \in PosInt
  BY <1>1, <1>2 DEF WellFormed
<1>4. \A i \in 1..6 : Multipliers(input, rules)[i] \in PosInt
  BY <1>3 DEF Multipliers
<1> QED BY <1>3, <1>4 DEF Factors

-----------------------------------------------------------------------------
(* Prices *)

\* Two roundings of one product are a cent apart at most.
LEMMA GrossAlike ==
    ASSUME NEW rules, WellFormed(rules), NEW input \in QuoteInputs,
           NEW g \in GrossCents(input, rules), NEW h \in GrossCents(input, rules)
    PROVE  g \in Nat /\ h \in Nat /\ h - g \in -1..1
<1> DEFINE n == Product(rules.base[input.country], Multipliers(input, rules))
<1>1. n \in Digits
  BY InputFactors, ProductValue
<1>2. g \in Cents(n) /\ h \in Cents(n)
  BY DEF GrossCents
<1> HIDE DEF n
<1>3. ValueOf(n) \in Nat
  BY <1>1, SMT DEF Digits, ValueOf, Base
<1>4. /\ g \in Nat /\ h \in Nat
      /\ 2 * ValueOf(n) - Base * Base <= 2 * Base * Base * g
      /\ 2 * Base * Base * g <= 2 * ValueOf(n) + Base * Base
      /\ 2 * ValueOf(n) - Base * Base <= 2 * Base * Base * h
      /\ 2 * Base * Base * h <= 2 * ValueOf(n) + Base * Base
  BY <1>1, <1>2, CentsNear
<1> QED BY <1>3, <1>4, SMT DEF Base

\* A larger product is not rounded to less.
LEMMA GrossGrows ==
    ASSUME NEW rules, WellFormed(rules),
           NEW input \in QuoteInputs, NEW worse \in QuoteInputs,
           worse.country = input.country,
           \A i \in 1..6 : Multipliers(input, rules)[i] <= Multipliers(worse, rules)[i],
           NEW j \in 1..6, Multipliers(input, rules)[j] < Multipliers(worse, rules)[j],
           NEW g \in GrossCents(input, rules), NEW h \in GrossCents(worse, rules)
    PROVE  g <= h
<1> DEFINE r == rules.base[input.country]
           n == Product(r, Multipliers(input, rules))
           m == Product(r, Multipliers(worse, rules))
<1>1. Factors(r, Multipliers(input, rules)) /\ Factors(r, Multipliers(worse, rules))
  BY InputFactors
<1>2. n \in Digits /\ m \in Digits
  BY <1>1, ProductValue
<1>3. ValueOf(n) < ValueOf(m)
  BY <1>1, LargerProduct
<1>4. g \in Cents(n) /\ h \in Cents(m)
  BY DEF GrossCents
<1> HIDE DEF n, m
<1>5. ValueOf(n) \in Nat /\ ValueOf(m) \in Nat
  BY <1>2, SMT DEF Digits, ValueOf, Base
<1>6. /\ g \in Nat /\ h \in Nat
      /\ 2 * Base * Base * g <= 2 * ValueOf(n) + Base * Base
      /\ 2 * ValueOf(m) - Base * Base <= 2 * Base * Base * h
  BY <1>2, <1>4, CentsNear
<1> QED BY <1>3, <1>5, <1>6, SMT DEF Base

\* What calculatePricing returns: a premium, its tax, and a twelfth of both.
LEMMA PriceParts ==
    ASSUME NEW rules, WellFormed(rules), NEW input \in QuoteInputs,
           NEW p \in calculatePricing(input, rules)
    PROVE  \E gross \in GrossCents(input, rules) :
              \E tax, monthly \in Nat :
                 LET net == NetPremium(gross, rules.deductible[input.deductible])
                 IN /\ p = Breakdown(net, tax, monthly)
                    /\ net \in Nat /\ net >= MinimumNet
                    /\ tax > 0
                    /\ 12 * monthly - (net + tax) \in -6..6
<1>1. PICK net \in NetPremiums(input, rules) :
         \E tax \in Rounded(net * rules.tax[input.country], 100) :
            \E monthly \in Instalment(net, tax) : p = Breakdown(net, tax, monthly)
  BY DEF calculatePricing
<1>2. PICK tax \in Rounded(net * rules.tax[input.country], 100) :
         \E monthly \in Instalment(net, tax) : p = Breakdown(net, tax, monthly)
  BY <1>1
<1>3. PICK monthly \in Instalment(net, tax) : p = Breakdown(net, tax, monthly)
  BY <1>2
<1>4. PICK gross \in GrossCents(input, rules) :
         net = NetPremium(gross, rules.deductible[input.deductible])
  BY DEF NetPremiums
<1>5. /\ gross \in Nat
      /\ rules.deductible[input.deductible] \in Nat
      /\ rules.tax[input.country] \in PosInt
  <2>1. gross \in Nat
    BY GrossAlike
  <2>2. input.country \in 1..5 /\ input.deductible \in 1..4
    BY DEF QuoteInputs
  <2> QED BY <2>1, <2>2 DEF WellFormed
<1>6. net \in Nat /\ net >= MinimumNet
  BY <1>4, <1>5, SMT DEF NetPremium, MinimumNet
<1> DEFINE rate == rules.tax[input.country]
<1>7. rate \in PosInt
  BY <1>5
<1> HIDE DEF rate
<1>8. net * rate \in Nat /\ net <= net * rate
  <2>1. 1 \in PosInt /\ 1 <= rate /\ net \in PosInt /\ net <= net
    BY <1>6, <1>7, SMT DEF PosInt, MinimumNet
  <2>2. net * 1 <= net * rate /\ net * rate \in PosInt
    BY <1>7, <2>1, LargerFactor
  <2> QED BY <1>6, <2>2 DEF PosInt
<1>9. tax \in Nat /\ 100 * tax - net * rate \in -50..50
  BY <1>8, RoundedTax DEF rate
<1>10. tax > 0
  <2> DEFINE whole == net * rate
  <2>1. whole \in Nat /\ net <= whole /\ 100 * tax - whole \in -50..50
    BY <1>8, <1>9
  <2> HIDE DEF whole
  <2> QED BY <1>6, <1>9, <2>1, SMT DEF MinimumNet
<1>11. monthly \in Nat /\ 12 * monthly - (net + tax) \in -6..6
  <2>1. net + tax \in Nat /\ monthly \in Rounded(net + tax, 12)
    BY <1>6, <1>9 DEF Instalment
  <2> QED BY <2>1, RoundedTwelfth
<1> QED BY <1>3, <1>4, <1>6, <1>9, <1>10, <1>11

\* The premium alone.
LEMMA PremiumFromGross ==
    ASSUME NEW rules, WellFormed(rules), NEW input \in QuoteInputs,
           NEW p \in calculatePricing(input, rules)
    PROVE  \E gross \in GrossCents(input, rules) :
              p.netAnnualPremium = NetPremium(gross, rules.deductible[input.deductible])
BY PriceParts DEF Breakdown

\* A larger deductible costs less, by its discount.
LEMMA DeductibleTakesOff ==
    ASSUME NEW rules, WellFormed(rules), NEW input \in QuoteInputs,
           NEW d \in 1..4, d < input.deductible,
           NEW p \in calculatePricing(input, rules),
           NEW q \in calculatePricing([input EXCEPT !.deductible = d], rules)
    PROVE  /\ p.netAnnualPremium <= q.netAnnualPremium
           /\ p.netAnnualPremium > MinimumNet =>
                 q.netAnnualPremium - p.netAnnualPremium
                     - (rules.deductible[input.deductible] - rules.deductible[d]) \in -1..1
<1> DEFINE other == [input EXCEPT !.deductible = d]
           more == rules.deductible[input.deductible]
           less == rules.deductible[d]
<1>1. other \in QuoteInputs /\ other.deductible = d
  BY DEF QuoteInputs
<1>2. GrossCents(other, rules) = GrossCents(input, rules)
  BY DEF QuoteInputs, GrossCents, Multipliers
<1>3. PICK g \in GrossCents(input, rules) : p.netAnnualPremium = NetPremium(g, more)
  BY PremiumFromGross
<1> HIDE DEF other
<1>4. PICK h \in GrossCents(input, rules) : q.netAnnualPremium = NetPremium(h, less)
  <2>1. q \in calculatePricing(other, rules)
    BY DEF other
  <2> QED BY <1>1, <1>2, <2>1, PremiumFromGross
<1>5. g \in Nat /\ h \in Nat /\ h - g \in -1..1
  BY GrossAlike
<1>6. more \in Nat /\ less \in Nat /\ less < more
  BY DEF WellFormed, Ascending, QuoteInputs
<1> HIDE DEF more, less
<1>7. /\ NetPremium(g, more) <= NetPremium(h, less)
      /\ NetPremium(g, more) > MinimumNet =>
            NetPremium(h, less) - NetPremium(g, more) - (more - less) \in -1..1
  BY <1>5, <1>6, SMT DEF NetPremium, MinimumNet
<1> QED BY <1>3, <1>4, <1>7 DEF more, less

\* One step worse in one field, and still accepted: not cheaper.
LEMMA WorseCostsMore ==
    ASSUME NEW rules, WellFormed(rules), NEW input \in QuoteInputs,
           NEW f \in {"property", "area", "year", "claims", "tier"},
           [input EXCEPT ![f] = @ + 1] \in QuoteInputs,
           isEligible([input EXCEPT ![f] = @ + 1], rules),
           NEW p \in calculatePricing(input, rules),
           NEW q \in calculatePricing([input EXCEPT ![f] = @ + 1], rules)
    PROVE  p.netAnnualPremium <= q.netAnnualPremium
<1> DEFINE worse == [input EXCEPT ![f] = @ + 1]
           m == Multipliers(input, rules)
           k == Multipliers(worse, rules)
           discount == rules.deductible[input.deductible]
<1>1. /\ input.country \in 1..5 /\ input.property \in 1..5 /\ input.occupancy \in 1..3
      /\ input.area \in 1..5 /\ input.year \in 1..4 /\ input.tier \in 1..3
      /\ input.claims \in Nat /\ input.deductible \in 1..4
  BY DEF QuoteInputs
<1>2. /\ worse.country = input.country /\ worse.occupancy = input.occupancy
      /\ worse.deductible = input.deductible
      /\ worse.property = IF f = "property" THEN input.property + 1 ELSE input.property
      /\ worse.area     = IF f = "area" THEN input.area + 1 ELSE input.area
      /\ worse.year     = IF f = "year" THEN input.year + 1 ELSE input.year
      /\ worse.claims   = IF f = "claims" THEN input.claims + 1 ELSE input.claims
      /\ worse.tier     = IF f = "tier" THEN input.tier + 1 ELSE input.tier
  BY DEF QuoteInputs
<1>3. /\ worse \in QuoteInputs
      /\ worse.property \in 1..5 /\ worse.area \in 1..5 /\ worse.year \in 1..4
      /\ worse.claims \in Nat /\ worse.tier \in 1..3
      /\ worse.claims <= 3
  BY DEF QuoteInputs, isEligible, WellFormed
<1> HIDE DEF worse
<1> DEFINE c == IF input.claims < 3 THEN input.claims + 1 ELSE 4
           e == IF worse.claims < 3 THEN worse.claims + 1 ELSE 4
<1>4. c \in 1..4 /\ e \in 1..4 /\ (f = "claims" => c < e) /\ (f # "claims" => c = e)
  BY <1>1, <1>2, <1>3
<1>5. /\ m[1] = rules.property[input.property] /\ k[1] = rules.property[worse.property]
      /\ m[2] = rules.occupancy[input.occupancy] /\ k[2] = m[2]
      /\ m[3] = rules.area[input.area] /\ k[3] = rules.area[worse.area]
      /\ m[4] = rules.year[input.year] /\ k[4] = rules.year[worse.year]
      /\ m[5] = rules.claims[c] /\ k[5] = rules.claims[e]
      /\ m[6] = rules.tier[input.tier] /\ k[6] = rules.tier[worse.tier]
  BY <1>2 DEF Multipliers
<1> HIDE DEF c, e
<1>6. \A i \in 1..6 : m[i] \in PosInt
  BY InputFactors DEF Factors
<1> HIDE DEF m, k
<1>7. /\ f = "property" => m[1] < k[1]
      /\ f # "property" => m[1] = k[1]
  BY <1>1, <1>2, <1>3, <1>5 DEF WellFormed, Ascending
<1>8. /\ f = "area" => m[3] < k[3]
      /\ f # "area" => m[3] = k[3]
  BY <1>1, <1>2, <1>3, <1>5 DEF WellFormed, Ascending
<1>9. /\ f = "year" => m[4] < k[4]
      /\ f # "year" => m[4] = k[4]
  BY <1>1, <1>2, <1>3, <1>5 DEF WellFormed, Ascending
<1>10. /\ f = "claims" => m[5] < k[5]
       /\ f # "claims" => m[5] = k[5]
  BY <1>4, <1>5 DEF WellFormed, Ascending
<1>11. /\ f = "tier" => m[6] < k[6]
       /\ f # "tier" => m[6] = k[6]
  BY <1>1, <1>2, <1>3, <1>5 DEF WellFormed, Ascending
<1>12. \A i \in 1..6 : k[i] \in PosInt
  BY <1>3, InputFactors DEF Factors, k
<1>13. \A i \in 1..6 : m[i] <= k[i]
  <2>1. \A i \in 1..6 : m[i] = k[i] \/ m[i] < k[i]
    <3> SUFFICES ASSUME NEW i \in 1..6 PROVE m[i] = k[i] \/ m[i] < k[i]
      OBVIOUS
    <3>1. i = 1 \/ i = 2 \/ i = 3 \/ i = 4 \/ i = 5 \/ i = 6
      OBVIOUS
    <3> QED BY <1>5, <1>7, <1>8, <1>9, <1>10, <1>11, <3>1
  <2> QED BY <1>6, <1>12, <2>1 DEF PosInt
<1>14. PICK j \in 1..6 : m[j] < k[j]
  <2>1. 1 \in 1..6 /\ 3 \in 1..6 /\ 4 \in 1..6 /\ 5 \in 1..6 /\ 6 \in 1..6
    OBVIOUS
  <2> QED BY <1>7, <1>8, <1>9, <1>10, <1>11, <2>1
<1>15. PICK g \in GrossCents(input, rules) : p.netAnnualPremium = NetPremium(g, discount)
  BY PremiumFromGross
<1>16. PICK h \in GrossCents(worse, rules) : q.netAnnualPremium = NetPremium(h, discount)
  BY <1>2, <1>3, PremiumFromGross DEF worse
<1>17. g <= h /\ g \in Nat /\ h \in Nat
  BY <1>2, <1>3, <1>13, <1>14, GrossAlike, GrossGrows DEF m, k
<1>18. discount \in Nat
  BY <1>1 DEF WellFormed
<1> HIDE DEF discount
<1>19. NetPremium(g, discount) <= NetPremium(h, discount)
  BY <1>17, <1>18, SMT DEF NetPremium, MinimumNet
<1> QED BY <1>15, <1>16, <1>19

-----------------------------------------------------------------------------
(* The inductive invariant: a quote was priced under the rules noted in     *)
(* priced, and its digest is that of its label, its input and its figures.  *)

Requested(q) ==
    q \in [input : QuoteInputs, ruleVersion : Versions, route : {"evaluate", "calculate"}]

Standing(q, v) ==
    /\ q.input \in QuoteInputs
    /\ q.ruleVersion \in Versions
    /\ q = Quoted(q.input, q.ruleVersion, q.pricing)
    /\ q.pricing \in calculatePricing(q.input, getRuleSet(v))

Inv == /\ version \in Versions /\ service \in Versions /\ priced \in Versions
       /\ request # NoRequest => Requested(request)
       /\ quote # NoQuote => Standing(quote, priced)

\* A quote made up of an input, a label and a price of that input stands.
LEMMA QuotedStands ==
    ASSUME NEW input \in QuoteInputs, NEW label \in Versions, NEW v \in Versions,
           NEW pricing \in calculatePricing(input, getRuleSet(v))
    PROVE  Standing(Quoted(input, label, pricing), v)
<1> DEFINE q == Quoted(input, label, pricing)
<1>1. q.input = input /\ q.ruleVersion = label /\ q.pricing = pricing
  BY DEF Quoted
<1>2. q = Quoted(q.input, q.ruleVersion, q.pricing)
  BY <1>1
<1> HIDE DEF q
<1>3. Standing(q, v)
  BY <1>1, <1>2 DEF Standing
<1> QED BY <1>3 DEF q

\* Each step of a calculation, adjustments, withdrawals and deployments preserve the
\* invariant.
LEMMA InvNext == Inv /\ [Next]_vars => Inv'
<1> SUFFICES ASSUME Inv, [Next]_vars PROVE Inv'
  OBVIOUS
<1>1. ASSUME NEW input \in Declarations, CalculateQuote(input) PROVE Inv'
  <2>1. Requested([input |-> input, ruleVersion |-> version, route |-> "evaluate"])
    BY PricingAssumption DEF Inv, Requested
  <2>2. Requested(request')
    BY <1>1, <2>1 DEF CalculateQuote
  <2> QED BY <1>1, <2>2 DEF CalculateQuote, Inv
<1>2. ASSUME Evaluated PROVE Inv'
  <2>1. Requested(request) /\ request' \in {[request EXCEPT !.route = "calculate"], NoRequest}
    BY <1>2 DEF Evaluated, Inv
  <2>2. request' # NoRequest => Requested(request')
    BY <2>1 DEF Requested
  <2> QED BY <1>2, <2>2 DEF Evaluated, Inv
<1>3. ASSUME Calculated PROVE Inv'
  <2>1. PICK pricing \in calculate(request.input) :
           quote' = Quoted(request.input, request.ruleVersion, pricing)
    BY <1>3 DEF Calculated
  <2>2. Requested(request) /\ service \in Versions
    BY <1>3 DEF Calculated, Inv
  <2>3. Standing(quote', service)
    BY <2>1, <2>2, QuotedStands DEF Requested, calculate
  <2> QED BY <1>3, <2>3 DEF Calculated, Inv
<1>4. ASSUME NEW tier \in Tiers, NEW deductible \in Deductibles,
             AdjustQuote(tier, deductible)
      PROVE  Inv'
  <2> DEFINE input == Adjusted(tier, deductible)
  <2>1. PICK pricing \in calculate(input) :
           quote' = Quoted(input, quote.ruleVersion, pricing)
    BY <1>4 DEF AdjustQuote
  <2>2. /\ quote.input \in QuoteInputs /\ quote.ruleVersion \in Versions
        /\ service \in Versions
    BY <1>4 DEF AdjustQuote, Inv, Standing
  <2>3. input \in QuoteInputs
    BY <2>2, PricingAssumption DEF Adjusted, QuoteInputs
  <2> HIDE DEF input
  <2>4. Standing(quote', service)
    BY <2>1, <2>2, <2>3, QuotedStands DEF calculate
  <2> QED BY <1>4, <2>4 DEF AdjustQuote, Inv
<1>5. ASSUME Failed \/ Withdraw PROVE Inv'
  BY <1>5 DEF Failed, Withdraw, Inv
<1>6. ASSUME NEW v \in Versions, DeployEngine(v) \/ DeployService(v) PROVE Inv'
  BY <1>6 DEF DeployEngine, DeployService, Inv
<1>7. CASE UNCHANGED vars
  BY <1>7 DEF vars, Inv
<1> QED BY <1>1, <1>2, <1>3, <1>4, <1>5, <1>6, <1>7 DEF Next

\* Every quote was priced by calculatePricing under a version of the registry.
THEOREM Invariance == Spec => []Inv
<1>1. Init => Inv
  BY DEF Init, Inv, Versions
<1> QED BY <1>1, InvNext, PTL DEF Spec

\* A quote has a price of its input under the well-formed rules noted in priced.
LEMMA PricedAsNoted ==
    ASSUME Inv, quote # NoQuote
    PROVE  /\ quote.input \in QuoteInputs
           /\ quote.pricing \in calculatePricing(quote.input, getRuleSet(priced))
           /\ WellFormed(getRuleSet(priced))
<1>1. /\ quote.input \in QuoteInputs /\ priced \in Versions
      /\ quote.pricing \in calculatePricing(quote.input, getRuleSet(priced))
  BY DEF Inv, Standing
<1> QED BY <1>1, RegistryWellFormed

\* Premiums are whole cents from 50 EUR up and bear a tax, for every declaration and
\* whenever another version is deployed.
THEOREM TypeCorrect == Spec => []TypeOK
<1>1. Inv => TypeOK
  <2>1. ASSUME Inv, quote # NoQuote
        PROVE  /\ quote.ruleVersion \in Versions
               /\ quote.pricing.netAnnualPremium \in Nat
               /\ quote.pricing.netAnnualPremium >= MinimumNet
               /\ quote.pricing.totalAnnualPremium > quote.pricing.netAnnualPremium
    <3>1. quote.ruleVersion \in Versions
      BY <2>1 DEF Inv, Standing
    <3>2. PICK net, tax, monthly \in Nat :
             /\ quote.pricing = Breakdown(net, tax, monthly)
             /\ net >= MinimumNet /\ tax > 0
      BY <2>1, PricedAsNoted, PriceParts
    <3> QED BY <3>1, <3>2 DEF Breakdown
  <2> QED BY <2>1 DEF Inv, Requested, TypeOK
<1> QED BY <1>1, Invariance, PTL

\* The twelve instalments of totalMonthlyPremium make up the annual total but for six
\* cents, whatever the premium.
THEOREM InstalmentsSum == Spec => []InstalmentsAddUp
<1>1. Inv => InstalmentsAddUp
  <2> SUFFICES ASSUME Inv, quote # NoQuote
               PROVE  12 * quote.pricing.totalMonthlyPremium
                         - quote.pricing.totalAnnualPremium \in -6..6
    BY DEF InstalmentsAddUp
  <2>1. PICK net, tax, monthly \in Nat :
           /\ quote.pricing = Breakdown(net, tax, monthly)
           /\ 12 * monthly - (net + tax) \in -6..6
    BY PricedAsNoted, PriceParts
  <2> QED BY <2>1 DEF Breakdown
<1> QED BY <1>1, Invariance, PTL

\* The digest of a quote vouches for its figures under any deployments, and a quote
\* priced under the rules on its label replays.
THEOREM Replays == Spec => []ReplayVouches
<1>1. Inv => ReplayVouches
  <2> SUFFICES ASSUME Inv, quote # NoQuote
               PROVE  /\ \A replay \in replayHistoricalQuote(quote) :
                            replay.quoteHash = quote.quoteHash =>
                                SameFigures(replay.pricing, quote.pricing)
                      /\ priced = quote.ruleVersion => quote \in replayHistoricalQuote(quote)
    BY DEF ReplayVouches
  <2>1. /\ quote = Quoted(quote.input, quote.ruleVersion, quote.pricing)
        /\ quote.pricing \in calculatePricing(quote.input, getRuleSet(priced))
    BY DEF Inv, Standing
  <2>2. quote.quoteHash
            = computeCanonicalQuoteFingerprint(quote.ruleVersion, quote.input, quote.pricing)
    BY <2>1 DEF Quoted
  <2>3. ASSUME NEW replay \in replayHistoricalQuote(quote),
               replay.quoteHash = quote.quoteHash
        PROVE  SameFigures(replay.pricing, quote.pricing)
    <3>1. PICK p : replay = Quoted(quote.input, quote.ruleVersion, p)
      BY DEF replayHistoricalQuote
    <3>2. /\ replay.pricing = p
          /\ replay.quoteHash
                = computeCanonicalQuoteFingerprint(quote.ruleVersion, quote.input, p)
      BY <3>1 DEF Quoted
    <3> QED BY <2>2, <2>3, <3>2 DEF computeCanonicalQuoteFingerprint, SameFigures
  <2>4. ASSUME priced = quote.ruleVersion PROVE quote \in replayHistoricalQuote(quote)
    BY <2>1, <2>4 DEF replayHistoricalQuote
  <2> QED BY <2>3, <2>4
<1> QED BY <1>1, Invariance, PTL

\* Whatever is insured, a larger deductible takes its discount off the premium.
THEOREM DeductiblesPay == Spec => []DeductiblePays
<1>1. Inv => DeductiblePays
  <2> SUFFICES ASSUME Inv, quote # NoQuote,
                      NEW d \in Deductibles, d < quote.input.deductible,
                      NEW other \in NetAt(d)
               PROVE  /\ quote.pricing.netAnnualPremium <= other
                      /\ quote.pricing.netAnnualPremium > MinimumNet =>
                            other - quote.pricing.netAnnualPremium
                              - (getRuleSet(priced).deductible[quote.input.deductible]
                                   - getRuleSet(priced).deductible[d]) \in -1..1
    BY DEF DeductiblePays
  <2> DEFINE rules == getRuleSet(priced)
  <2>1. PICK price \in calculatePricing([quote.input EXCEPT !.deductible = d], rules) :
           other = price.netAnnualPremium
    BY DEF NetAt
  <2>2. d \in 1..4
    BY PricingAssumption
  <2> HIDE DEF rules
  <2>3. /\ quote.input \in QuoteInputs
        /\ quote.pricing \in calculatePricing(quote.input, rules)
        /\ WellFormed(rules)
    BY PricedAsNoted DEF rules
  <2> QED BY <2>1, <2>2, <2>3, DeductibleTakesOff DEF rules
<1> QED BY <1>1, Invariance, PTL

\* Whatever is insured, a worse risk or a better cover is not cheaper.
THEOREM PremiumsFollowRisk == Spec => []PremiumFollowsRisk
<1>1. Inv => PremiumFollowsRisk
  <2> SUFFICES ASSUME Inv, quote # NoQuote,
                      NEW f \in {"property", "area", "year", "claims", "tier"},
                      [quote.input EXCEPT ![f] = @ + 1] \in Declarations,
                      isEligible([quote.input EXCEPT ![f] = @ + 1],
                                 getRuleSet(priced)),
                      NEW p \in calculatePricing([quote.input EXCEPT ![f] = @ + 1],
                                                 getRuleSet(priced))
               PROVE  p.netAnnualPremium >= quote.pricing.netAnnualPremium
    BY DEF PremiumFollowsRisk
  <2> DEFINE rules == getRuleSet(priced)
             worse == [quote.input EXCEPT ![f] = @ + 1]
  <2>1. worse \in QuoteInputs /\ isEligible(worse, rules) /\ p \in calculatePricing(worse, rules)
    BY PricingAssumption
  <2>2. /\ quote.input \in QuoteInputs
        /\ quote.pricing \in calculatePricing(quote.input, rules)
        /\ WellFormed(rules)
    BY PricedAsNoted
  <2> HIDE DEF rules
  <2>3. quote.pricing.netAnnualPremium <= p.netAnnualPremium
    BY <2>1, <2>2, WorseCostsMore
  <2>4. quote.pricing.netAnnualPremium \in Int /\ p.netAnnualPremium \in Int
    BY <2>1, <2>2, PriceParts DEF Breakdown
  <2> QED BY <2>3, <2>4
<1> QED BY <1>1, Invariance, PTL
=============================================================================
