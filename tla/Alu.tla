-------------------------------- MODULE Alu ---------------------------------
(***************************************************************************)
(* Addition, subtraction, negation and comparison as the handlers of       *)
(* m68k_in.c compute them, with the condition codes (m68kcpu.h 763-847).   *)
(*                                                                         *)
(* An operand of w bits is a number below 2^w. The operators take the      *)
(* weight h = 2^(w-1) of its sign bit, so that one definition stands for   *)
(* the 8, 16 and 32 bit handlers, and "long" where the 32 bit handlers     *)
(* differ: there is no bit 32 in a uint, and the carry is worked out from  *)
(* the sign bits. FLAG_X, FLAG_N, FLAG_V and FLAG_C are words of which one *)
(* bit counts and FLAG_Z is a word that is zero when Z is set: here each   *)
(* is a Boolean.                                                           *)
(***************************************************************************)
EXTENDS Integers

Flags == [x : BOOLEAN, n : BOOLEAN, z : BOOLEAN, v : BOOLEAN, c : BOOLEAN]

Bit(b) == IF b THEN 1 ELSE 0

(* NFLAG_8, NFLAG_16, NFLAG_32: the sign bit.                              *)
Negative(h, a) == (a \div h) % 2 = 1

(* CFLAG_8 and CFLAG_16: the bit above the operand in the full result,     *)
(* which is below zero after a subtraction that borrows.                   *)
Above(h, t) == (t \div (2 * h)) % 2 = 1

(* CFLAG_ADD_32 and CFLAG_SUB_32.                                          *)
CFlagAdd(h, s, d, r) ==
    \/ Negative(h, s) /\ Negative(h, d)
    \/ ~Negative(h, r) /\ (Negative(h, s) \/ Negative(h, d))

CFlagSub(h, s, d, r) ==
    \/ Negative(h, s) /\ Negative(h, r)
    \/ ~Negative(h, d) /\ (Negative(h, s) \/ Negative(h, r))

(* VFLAG_ADD_8 ... VFLAG_SUB_32.                                           *)
VFlagAdd(h, s, d, r) ==
    Negative(h, s) # Negative(h, r) /\ Negative(h, d) # Negative(h, r)

VFlagSubAsAdd(h, s, d, r) == VFlagAdd(h, s, d, r)

VFlagSub(h, s, d, r) ==
    Negative(h, s) # Negative(h, d) /\ Negative(h, r) # Negative(h, d)

(* What an instruction gives: its result and the condition codes after it. *)
WithFlags(h, r, x, z, v, c) ==
    [res |-> r, f |-> [x |-> x, n |-> Negative(h, r), z |-> z, v |-> v, c |-> c]]

-----------------------------------------------------------------------------
(* add, addi, addq: dst + src. addx adds X and leaves Z clear if it was:   *)
(* FLAG_Z |= res.                                                          *)
SumOf(long, h, s, d, x, z) ==
    LET t == s + d + Bit(x)
        r == t % (2 * h)
        c == IF long THEN CFlagAdd(h, s, d, r) ELSE Above(h, t)
    IN WithFlags(h, r, c, z /\ r = 0, VFlagAdd(h, s, d, r), c)

Add(long, h, s, d, f) == SumOf(long, h, s, d, FALSE, TRUE)

AddxFreshZ(long, h, s, d, f) == SumOf(long, h, s, d, f.x, TRUE)

Addx(long, h, s, d, f) == SumOf(long, h, s, d, f.x, f.z)

(* sub, subi, subq, subx: dst - src.                                       *)
DifferenceOf(long, h, s, d, x, z) ==
    LET t == d - s - Bit(x)
        r == t % (2 * h)
        c == IF long THEN CFlagSub(h, s, d, r) ELSE Above(h, t)
    IN WithFlags(h, r, c, z /\ r = 0, VFlagSub(h, s, d, r), c)

Sub(long, h, s, d, f) == DifferenceOf(long, h, s, d, FALSE, TRUE)

Subx(long, h, s, d, f) == DifferenceOf(long, h, s, d, f.x, f.z)

(* cmp, cmpi, cmpm, cmpa: the flags of a subtraction, but X stays.         *)
Cmp(long, h, s, d, f) ==
    LET q == Sub(long, h, s, d, f) IN [res |-> d, f |-> [q.f EXCEPT !.x = f.x]]

(* neg and negx: V is the sign bit of src & res.                           *)
NegationOf(long, h, s, x, z) ==
    LET t == 0 - s - Bit(x)
        r == t % (2 * h)
        c == IF long THEN CFlagSub(h, s, 0, r) ELSE Above(h, t)
    IN WithFlags(h, r, c, z /\ r = 0, Negative(h, s) /\ Negative(h, r), c)

Neg(long, h, s, f) == NegationOf(long, h, s, FALSE, TRUE)

Negx(long, h, s, f) == NegationOf(long, h, s, f.x, f.z)

(* and, or, eor, not, move, tst, clr, ext, swap, mul: N and Z of the       *)
(* result, V and C clear, X untouched.                                     *)
Logical(h, r, f) == WithFlags(h, r, f.x, r = 0, FALSE, FALSE)

-----------------------------------------------------------------------------
(* COND_*: the conditions of bcc, scc and dbcc.                            *)
Conditions ==
    {"t", "f", "hi", "ls", "cc", "cs", "ne", "eq", "vc", "vs", "pl", "mi", "ge", "lt", "gt", "le"}

CondOf(f) ==
    [t  |-> TRUE,               f  |-> FALSE,
     hi |-> ~f.c /\ ~f.z,       ls |-> f.c \/ f.z,
     cc |-> ~f.c,               cs |-> f.c,
     ne |-> ~f.z,               eq |-> f.z,
     vc |-> ~f.v,               vs |-> f.v,
     pl |-> ~f.n,               mi |-> f.n,
     ge |-> f.n = f.v,          lt |-> f.n # f.v,
     gt |-> f.n = f.v /\ ~f.z,  le |-> f.n # f.v \/ f.z]

CondGtUnsigned(f, cc) == IF cc = "gt" THEN ~f.c /\ ~f.z ELSE CondOf(f)[cc]

Cond(f, cc) == CondOf(f)[cc]

(* m68ki_get_ccr and m68ki_set_ccr.                                        *)
GetCcr(f) == 16 * Bit(f.x) + 8 * Bit(f.n) + 4 * Bit(f.z) + 2 * Bit(f.v) + Bit(f.c)

Ccr(k) ==
    LET b(i) == (k \div i) % 2 = 1
    IN [x |-> b(16), n |-> b(8), z |-> b(4), v |-> b(2), c |-> b(1)]
=============================================================================
