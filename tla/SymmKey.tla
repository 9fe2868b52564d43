------------------------------ MODULE SymmKey ------------------------------
(***************************************************************************)
(* SymmKey (src/src/common.rs): a key of AES_128_KEY_LEN or AES_256_KEY_LEN *)
(* bytes, built by TryFrom<&[u8]> and combined by xor.  The agent holds    *)
(* two key shares, U and V, each delivered separately and replaced when a  *)
(* new one arrives, and combines them into the payload key; that glue is   *)
(* outside src/ and modelled from the spec (3, 4.4).                       *)
(***************************************************************************)
EXTENDS Naturals, Sequences

CONSTANTS
    AES_128_KEY_LEN, AES_256_KEY_LEN,  \* the two key lengths, in bytes
    ByteBits,    \* bits per byte (8 in the code)
    Inputs,      \* the byte strings a share may be delivered as
    None         \* Option::None

Bytes == 0 .. (2^ByteBits - 1)

ASSUME SymmKeyAssumption ==
    /\ AES_128_KEY_LEN \in Nat \ {0} /\ AES_256_KEY_LEN \in Nat \ {0}
    /\ AES_128_KEY_LEN # AES_256_KEY_LEN
    /\ ByteBits \in Nat \ {0}
    /\ Inputs \subseteq Seq(Bytes)

\* A SymmKey: its length is one of the two, checked once at construction.
IsKey(s) == Len(s) \in {AES_128_KEY_LEN, AES_256_KEY_LEN}

Ok(v) == [ok |-> TRUE, val |-> v]
Err(e) == [ok |-> FALSE, err |-> e]

\* x ^ y on one byte: bit i of the result is the sum of bits i mod 2.
ByteXor(x, y) ==
    LET f[i \in 0 .. ByteBits] ==
          IF i = 0 THEN 0
          ELSE f[i - 1] + 2^(i - 1) * (((x \div 2^(i - 1)) + (y \div 2^(i - 1))) % 2)
    IN  f[ByteBits]

\* Mutant: only an upper bound checked instead of the two exact lengths.
try_from_range(v) ==
    IF Len(v) <= AES_256_KEY_LEN THEN Ok(v) ELSE Err(<<"key length", Len(v)>>)

\* TryFrom<&[u8]> for SymmKey: the error reports the length seen.
try_from(v) ==
    IF Len(v) \in {AES_128_KEY_LEN, AES_256_KEY_LEN} THEN Ok(v)
                                                    ELSE Err(<<"key length", Len(v)>>)

\* Mutant: the length check dropped; zip stops at the shorter operand.
xor_nocheck(a, b) ==
    Ok([i \in 1 .. Len(a) |->
          IF i <= Len(b) THEN ByteXor(a[i], b[i]) ELSE 0])

\* SymmKey::xor: differing lengths are an error; else the bytewise xor.
xor(a, b) ==
    IF Len(a) # Len(b) THEN Err(<<"cannot xor differing length slices">>)
    ELSE Ok([i \in 1 .. Len(a) |-> ByteXor(a[i], b[i])])

VARIABLES
    u, v,     \* the U and V shares the agent holds, or None
    k,        \* the key combined from them, or None
    kFrom,    \* the pair of shares k was combined from
    lastErr   \* the error of the last failed construction or combination

vars == <<u, v, k, kFrom, lastErr>>

Init ==
    /\ u = None /\ v = None /\ k = None
    /\ kFrom = <<None, None>>
    /\ lastErr = None

\* A share arrives as bytes and becomes a SymmKey, or is refused.
Deliver(slot, b) ==
    LET r == try_from(b) IN
    /\ IF r.ok
       THEN /\ u' = IF slot = "U" THEN r.val ELSE u
            /\ v' = IF slot = "V" THEN r.val ELSE v
            /\ lastErr' = lastErr
       ELSE /\ lastErr' = r.err
            /\ UNCHANGED <<u, v>>
    /\ UNCHANGED <<k, kFrom>>

\* Both shares are held: combine them.
Combine ==
    /\ u # None /\ v # None
    /\ LET r == xor(u, v) IN
       IF r.ok THEN /\ k' = r.val
                    /\ kFrom' = <<u, v>>
                    /\ lastErr' = lastErr
               ELSE /\ lastErr' = r.err
                    /\ UNCHANGED <<k, kFrom>>
    /\ UNCHANGED <<u, v>>

Next ==
    \/ \E slot \in {"U", "V"}, b \in Inputs : Deliver(slot, b)
    \/ Combine

Spec == Init /\ [][Next]_vars

-----------------------------------------------------------------------------
(* Properties *)

\* Spec 3: every SymmKey the agent holds, delivered or combined, has one of
\* the two lengths -- validated at construction and never changed.
TypeOK ==
    /\ \A x \in {u, v, k} : x = None \/ (IsKey(x) /\ x \in Seq(Bytes))
    /\ lastErr \in {None, <<"cannot xor differing length slices">>}
                    \cup ({"key length"} \X Nat)
    /\ kFrom[1] = None <=> k = None

\* Spec 3, 4.4: a combined key is as long as both shares it came from --
\* xor refuses shares of differing lengths rather than truncating to the
\* shorter one, as the zip in SymmKey::xor would without its length check.
CombinedLengthPreserved ==
    k # None => Len(k) = Len(kFrom[1]) /\ Len(k) = Len(kFrom[2])

=============================================================================
