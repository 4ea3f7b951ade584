------------------------------ MODULE Xoshiro ------------------------------
(***************************************************************************)
(* The random generators of cppddnnf/src/xoshiro.hpp, which rhsampler      *)
(* draws its words from.  The six classes have the code of two engines and *)
(* three ways to make a result.  A word of 64 bits is the set of its bits, *)
(* and a state a word for each of 0 .. size - 1.                           *)
(***************************************************************************)
EXTENDS Integers, Sequences, SequencesExt, FiniteSets, FiniteSetsExt

Bits == 0 .. 63
Word == SUBSET Bits

Xor(w, x) == (w \ x) \cup (x \ w)
ShiftLeft(w, k) == {b + k : b \in {c \in w : c + k <= 63}}
Rotl(w, k) == {(b + k) % 64 : b \in w}

\* Words are added by adding the carries until there is none.
RECURSIVE Plus(_, _)
Plus(w, x) == IF x = {} THEN w ELSE Plus(Xor(w, x), ShiftLeft(w \cap x, 1))

\* The products the code takes: by 5 and by 9, which are 1 + 2^2 and 1 + 2^3.
Times5(w) == Plus(w, ShiftLeft(w, 2))
Times9(w) == Plus(w, ShiftLeft(w, 3))

\* The bits of words that are written as four numbers of 16 bits, the last of them
\* the lowest: bit b of the word with index i is 64 * i + b.
Mask(words) ==
  {n \in 0 .. 64 * Len(words) - 1 :
     LET word == words[1 + n \div 64] IN (word[4 - (n % 64) \div 16] \div 2 ^ (n % 16)) % 2 = 1}

\* s[i] ^= s[j] for each <<i, j>>, then s[twisted] ^= t and the last word turned.
Engine512 ==
  [size |-> 8, xors |-> <<<<2, 0>>, <<5, 1>>, <<1, 2>>, <<7, 3>>, <<3, 4>>, <<4, 5>>, <<0, 6>>, <<6, 7>>>>,
   shift |-> 11, twisted |-> 6, turn |-> 21,
   JUMP |-> Mask(<<<<\h33ed, \h89b6, \he7a3, \h53f9>>, <<\h7600, \h83d7, \h9553, \h23be>>,
                  <<\h2837, \hf2fb, \hb5f2, \h2fae>>, <<\h4b8c, \h5674, \hd309, \h511c>>,
                  <<\hb11a, \hc47a, \h7ba2, \h8c25>>, <<\hf1be, \h7667, \h092b, \hcc1c>>,
                  <<\h5385, \h1efd, \hb6df, \h0aaf>>, <<\h1ebb, \hc8b2, \h3eaf, \h25db>>>>),
   LONG_JUMP |-> Mask(<<<<\h1146, \h7fef, \h8f92, \h1d28>>, <<\ha2a8, \h19f2, \he79c, \h8ea8>>,
                       <<\ha829, \h9fc2, \h84b3, \h959a>>, <<\hb4d3, \h4734, \h0ca6, \h3ee1>>,
                       <<\h1cb0, \h940b, \hedbf, \hf6ce>>, <<\hd956, \hc5c4, \hfa1f, \h8e17>>,
                       <<\h915e, \h38fd, \h4eda, \h93bc>>, <<\h5b3c, \hcdfa, \h5d7d, \haca5>>>>)]

Engine256 ==
  [size |-> 4, xors |-> <<<<2, 0>>, <<3, 1>>, <<1, 2>>, <<0, 3>>>>,
   shift |-> 17, twisted |-> 2, turn |-> 45,
   JUMP |-> Mask(<<<<\h180e, \hc6d3, \h3cfd, \h0aba>>, <<\hd5a6, \h1266, \hf0c9, \h392c>>,
                  <<\ha958, \h2618, \he03f, \hc9aa>>, <<\h39ab, \hdc45, \h29b1, \h661c>>>>),
   LONG_JUMP |-> Mask(<<<<\h76e1, \h5d3e, \hfefd, \hcbbf>>, <<\hc500, \h4e44, \h1c52, \h2fb3>>,
                       <<\h7771, \h0069, \h854e, \he241>>, <<\h3910, \h9bb0, \h2acb, \he635>>>>)]

\* The words a result is made of, and how far it is turned.
Generator(engine, result, first, second, turn) ==
  [engine |-> engine, result |-> result, first |-> first, second |-> second, turn |-> turn]
xoshiro512starstar == Generator(Engine512, "**", 1, 1, 7)
xoshiro512plusplus == Generator(Engine512, "++", 2, 0, 17)
xoshiro512plus == Generator(Engine512, "+", 0, 2, 0)
xoshiro256starstar == Generator(Engine256, "**", 1, 1, 7)
xoshiro256plusplus == Generator(Engine256, "++", 0, 3, 23)
xoshiro256plus == Generator(Engine256, "+", 0, 3, 0)
Classes ==
  {xoshiro512starstar, xoshiro512plusplus, xoshiro512plus,
   xoshiro256starstar, xoshiro256plusplus, xoshiro256plus}

Result(g, s) ==
  LET w == s[g.first]
      sum == Plus(w, s[g.second])
  IN CASE g.result = "**" -> Times9(Rotl(Times5(w), g.turn))
       [] g.result = "++" -> Plus(Rotl(sum, g.turn), w)
       [] g.result = "+" -> sum

\* seed(): memset.
Zero(e) == [i \in 0 .. e.size - 1 |-> {}]

\* seed(dev): two draws of 32 bits for a word, over whatever it holds.
Seeded(s, draws) ==
  [i \in DOMAIN s |->
     LET shifted(w, n) == ShiftLeft(w, 32) \cup draws[n]
     IN shifted(shifted(s[i], 2 * i + 1), 2 * i + 2)]

\* operator()
Mixed(xors, s) == FoldLeft(LAMBDA r, p : [r EXCEPT ![p[1]] = Xor(@, r[p[2]])], s, xors)
Next(e, s) ==
  [Mixed(e.xors, s) EXCEPT ![e.twisted] = Xor(@, ShiftLeft(s[1], e.shift)),
                           ![e.size - 1] = Rotl(@, e.turn)]

XorOf(s, r) == [i \in DOMAIN s |-> Xor(s[i], r[i])]

\* From the words added up so far and those of the generator, k calls of the jump
\* later, from bit n of the mask on.
Passed(e, mask) ==
  LET States == [0 .. e.size - 1 -> Word]
      passed[n \in Nat, k \in Nat, p \in States \X States] ==
        IF k = 1 THEN <<IF n \in mask THEN XorOf(p[1], p[2]) ELSE p[1], Next(e, p[2])>>
        ELSE LET half == k \div 2
             IN passed[n + half, k - half, passed[n, half, p]]
  IN passed

\* Mutant: the state is taken after the call.
JumpLate(e, s, mask) == Passed(e, mask)[0, 64 * e.size, <<Zero(e), Next(e, s)>>][1]

\* jump and long_jump: the states at the bits of a mask, added up.
Jump(e, s, mask) == Passed(e, mask)[0, 64 * e.size, <<Zero(e), s>>][1]

-----------------------------------------------------------------------------
(* What the generators promise. *)

\* The word that gives w when it is shifted and added to itself.
Unfolded(w, k) == {b \in Bits : Cardinality({c \in w : c <= b /\ (b - c) % k = 0}) % 2 = 1}

\* The state before, from the state after: t is made of a word mixed since, with
\* t itself where the word that t goes to was mixed into it.
Before(e, s) ==
  LET turned == [s EXCEPT ![e.size - 1] = Rotl(@, 64 - e.turn)]
      mixed == Xor(turned[1], turned[2])
      first == IF e.twisted = 2 THEN Unfolded(mixed, e.shift) ELSE mixed
  IN Mixed(Reverse(e.xors), [turned EXCEPT ![e.twisted] = Xor(@, ShiftLeft(first, e.shift))])

After(e, s, n) == Passed(e, {})[0, n, <<Zero(e), s>>][2]

\* The characteristic polynomials of the engines but for their first term: as many
\* calls as the state has bits are a jump by this mask.
Polynomial(e) ==
  IF e = Engine512
    THEN Mask(<<<<\hcf3c, \hff0c, \h0000, \h0001>>, <<\h7fdc, \h78d8, \h86f0, \h0c63>>,
                <<\hf05e, \h63fc, \ha6d7, \hb781>>, <<\h7a67, \h058e, \h7bba, \hb6f0>>,
                <<\hf11e, \hef83, \h2e32, \h518f>>, <<\h51ba, \h7c47, \hedc7, \h58ad>>,
                <<\h8f2d, \h2726, \h8ce4, \hb20b>>, <<\h0000, \h5000, \h55d8, \hb77f>>>>)
    ELSE Mask(<<<<\h9d11, \h6f2b, \hb0f0, \hf001>>, <<\h0280, \h002b, \hcefd, \h1a5e>>,
                <<\h04b4, \hedcf, \h2625, \h9f85>>, <<\h0003, \hc03c, \h3f3e, \hcb19>>>>)

\* x^0, x^1, .. modulo the polynomial, as sets of exponents, up to the square of
\* the largest.
Remainders(e) ==
  LET polynomial == Polynomial(e)
      Raised(p) ==
        LET q == {n + 1 : n \in p}
        IN IF 64 * e.size \in q THEN Xor(q \ {64 * e.size}, polynomial) ELSE q
      row[k \in Nat, p \in SUBSET Nat] ==
        IF k = 1 THEN <<p>>
        ELSE LET front == row[k \div 2, p] IN front \o row[k - k \div 2, Raised(Last(front))]
  IN row[128 * e.size - 1, {0}]

\* x^(2^k), by k squarings.
Power(e, remainders, k) ==
  LET Squared(p) ==
        LET sum[n \in Nat, m \in Nat] ==
              IF m = 1 THEN IF n \in p THEN remainders[2 * n + 1] ELSE {}
              ELSE Xor(sum[n, m \div 2], sum[n + m \div 2, m - m \div 2])
        IN sum[0, 64 * e.size]
      power[n \in Nat, p \in SUBSET Nat] ==
        IF n = 1 THEN Squared(p) ELSE power[n - n \div 2, power[n \div 2, p]]
  IN power[k, {1}]

\* jump is 2^128 calls of the generators of 256 bits and 2^256 of those of 512, and
\* long_jump is 2^192 and 2^384: the masks are those powers of x.
MasksRight ==
  \A e \in {Engine256, Engine512} :
    LET remainders == Remainders(e) IN
    /\ e.JUMP = Power(e, remainders, 32 * e.size)
    /\ e.LONG_JUMP = Power(e, remainders, 48 * e.size)

\* Some words that differ in one bit or in all, to tell a result's words apart.
SomeWords == {{}, Bits} \cup {{b} : b \in Bits}

\* A generator seeded from the device depends on its draws alone, though its
\* constructor leaves the words uninitialised (xoshiro.hpp:59).  No two states
\* have the same successor, so that only the zero state stays zero; a result
\* tells the values of one of the words apart, whatever the others; the calls
\* satisfy the polynomial, so that a jump by a power of x is so many calls; and
\* the masks of the code are the powers that were meant.
GeneratorRight(draws) ==
  \A g \in Classes : Len(draws) = 2 * g.engine.size =>
    LET e == g.engine
        s == Seeded(Zero(e), draws)
    IN /\ \A w \in SomeWords : Seeded([i \in DOMAIN s |-> w], draws) = s
       /\ Before(e, Next(e, s)) = s
       /\ Cardinality({Result(g, [s EXCEPT ![g.second] = w]) : w \in SomeWords}) = Cardinality(SomeWords)
       /\ Jump(e, s, Polynomial(e)) = After(e, s, 64 * e.size)
       /\ MasksRight

=============================================================================
