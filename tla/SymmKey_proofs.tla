--------------------------- MODULE SymmKey_proofs ---------------------------
(***************************************************************************)
(* Proofs that SymmKey's length guarantees hold for every pair of key      *)
(* lengths, every byte width and every set of delivered byte strings.     *)
(*                                                                         *)
(* What a combined byte is (ByteXor is defined by recursion over the bit   *)
(* positions) is out of the provers' reach and stays with TLC; what is    *)
(* proved is that try_from and xor never let a key of another length be   *)
(* held, and that a combination is as long as both shares.  The only fact *)
(* about xor's result the proof needs is that [i \in 1..n |-> e] is a     *)
(* sequence of length n, whatever e is.                                    *)
(***************************************************************************)
EXTENDS SymmKey, SequenceTheorems, TLAPS

\* A held key or share: None, or a SymmKey of one of the two lengths.
Held(x) == x # None => IsKey(x)

\* The key lengths of every SymmKey the agent holds, delivered or combined.
KeyLengthsValid == Held(u) /\ Held(v) /\ Held(k)

IInv ==
    /\ u # None => u \in Seq(Bytes)
    /\ v # None => v \in Seq(Bytes)
    /\ KeyLengthsValid
    /\ CombinedLengthPreserved

USE SymmKeyAssumption

\* A function built over 1..n is a sequence of length n.
LEMMA LenOfBuilt ==
    ASSUME NEW n \in Nat, NEW F(_)
    PROVE  Len([i \in 1 .. n |-> F(i)]) = n
<1> DEFINE s == [i \in 1 .. n |-> F(i)]
<1>1. s \in Seq({F(i) : i \in 1 .. n})
    BY IsASeq
<1>2. DOMAIN s = 1 .. Len(s) /\ Len(s) \in Nat
    BY <1>1, LenProperties
<1>3. QED
    BY <1>2

\* xor of two keys of the same length succeeds with a key of that length;
\* of keys of different lengths it fails.
LEMMA XorLength ==
    ASSUME NEW a \in Seq(Bytes), NEW b \in Seq(Bytes)
    PROVE  /\ xor(a, b).ok <=> Len(a) = Len(b)
           /\ xor(a, b).ok => Len(xor(a, b).val) = Len(a)
<1>1. Len(a) \in Nat
    BY LenProperties
<1>2. Len(a) = Len(b) =>
        Len([i \in 1 .. Len(a) |-> ByteXor(a[i], b[i])]) = Len(a)
    BY <1>1, LenOfBuilt
<1>3. QED
    BY <1>2 DEF xor, Ok, Err

LEMMA InitIInv == Init => IInv
BY DEF Init, IInv, KeyLengthsValid, Held, CombinedLengthPreserved

LEMMA NextIInv == IInv /\ [Next]_vars => IInv'
<1> SUFFICES ASSUME IInv, [Next]_vars PROVE IInv'
    OBVIOUS
<1>1. ASSUME NEW slot \in {"U", "V"}, NEW b \in Inputs, Deliver(slot, b)
      PROVE  IInv'
    <2>1. b \in Seq(Bytes)
        OBVIOUS
    <2>2. try_from(b).ok => try_from(b).val = b /\ IsKey(b)
        BY DEF try_from, Ok, Err, IsKey
    <2>3. UNCHANGED <<k, kFrom>>
        BY <1>1 DEF Deliver
    <2>4. QED
        BY <1>1, <2>1, <2>2, <2>3
        DEF Deliver, IInv, KeyLengthsValid, Held, CombinedLengthPreserved
<1>2. CASE Combine
    <2>1. u \in Seq(Bytes) /\ v \in Seq(Bytes) /\ IsKey(u) /\ IsKey(v)
        BY <1>2 DEF Combine, IInv, KeyLengthsValid, Held
    <2>2. xor(u, v).ok => /\ Len(u) = Len(v)
                          /\ Len(xor(u, v).val) = Len(u)
        BY <2>1, XorLength
    <2>3. CASE xor(u, v).ok
        <3>1. k' = xor(u, v).val /\ kFrom' = <<u, v>>
            BY <1>2, <2>3 DEF Combine
        <3>2. IsKey(k') /\ Len(k') = Len(kFrom'[1]) /\ Len(k') = Len(kFrom'[2])
            BY <2>1, <2>2, <2>3, <3>1 DEF IsKey
        <3>3. QED
            BY <1>2, <3>2
            DEF Combine, IInv, KeyLengthsValid, Held, CombinedLengthPreserved
    <2>4. CASE ~xor(u, v).ok
        BY <1>2, <2>4 DEF Combine, IInv, KeyLengthsValid, Held,
                          CombinedLengthPreserved
    <2>5. QED
        BY <2>3, <2>4
<1>3. CASE UNCHANGED vars
    BY <1>3 DEF vars, IInv, KeyLengthsValid, Held, CombinedLengthPreserved
<1>4. QED
    BY <1>1, <1>2, <1>3 DEF Next

\* For every pair of key lengths and every set of inputs, the agent never
\* holds a share or a combined key of another length than the two
\* TryFrom<&[u8]> accepts, and SymmKey::xor never yields a key shorter or
\* longer than either share (it refuses shares of differing lengths).
THEOREM LengthSafety == Spec => [](KeyLengthsValid /\ CombinedLengthPreserved)
<1>1. Init => IInv
    BY InitIInv
<1>2. IInv /\ [Next]_vars => IInv'
    BY NextIInv
<1>3. IInv => KeyLengthsValid /\ CombinedLengthPreserved
    BY DEF IInv
<1>4. QED
    BY <1>1, <1>2, <1>3, PTL DEF Spec

=============================================================================
