----------------------------- MODULE KfifoSetup -----------------------------
(***************************************************************************)
(* The sizes in kfifo.c: how kfifo_alloc and kfifo_init make a ring of a   *)
(* number of elements or bytes, what kfifo_free and a failed call leave    *)
(* behind, and how the copies from and to user space turn bytes into       *)
(* elements and back.  Data does not matter here, and calls are whole.     *)
(***************************************************************************)
EXTENDS Naturals

CONSTANTS
    UINT,        \* number of values of an unsigned int
    MaxSize,     \* bound on the sizes asked for
    ESizes       \* element sizes

Pow2[k \in 0..UINT] == IF k = 0 THEN 1 ELSE 2 * Pow2[k - 1]

ASSUME KfifoSetupConstants ==
    /\ UINT \in Nat /\ MaxSize \in 2..UINT
    /\ \E k \in 0..UINT : UINT = Pow2[k]
    /\ ESizes \subseteq 1..MaxSize

VARIABLES
    in, out, mask, esize, data,   \* struct __kfifo; data is "NULL" or whose memory it is
    room,                         \* bytes of that memory
    err,                          \* what the last call returned
    copied, arrived               \* *copied, the bytes it reports (less the elements missing,
                                  \* as the code has it), and those that were copied

setup_vars == <<in, out, mask, esize, data, room, err, copied, arrived>>

PowersOf2 == {Pow2[k] : k \in 0..MaxSize} \cap 1..MaxSize
size_as_is(size) == size       \* mutant: the size is not rounded
rounddown_pow_of_two(size) == CHOOSE p \in PowersOf2 : p <= size /\ size < 2 * p

Least(a, b) == IF a <= b THEN a ELSE b
PlusForever(i, k) == i + k     \* mutant: the index does not wrap
Plus(i, k) == (i + k) % UINT
kfifo_len == (in + UINT - out) % UINT
kfifo_unused == mask + 1 - kfifo_len

SetupTypeOK ==
    /\ in \in 0..(UINT - 1) /\ out \in 0..(UINT - 1)
    /\ mask \in 0..(MaxSize - 1)
    /\ esize \in ESizes \cup {0}
    /\ data \in {"NULL", "kmalloc", "caller"}
    /\ room \in Nat
    /\ err \in {"0", "EINVAL", "ENOMEM", "EFAULT"}
    /\ copied \in Nat /\ arrived \in Nat

SetupInit ==   \* zeroed memory
    /\ in = 0 /\ out = 0 /\ mask = 0 /\ esize = 0
    /\ data = "NULL" /\ room = 0
    /\ err = "0"
    /\ copied = 0 /\ arrived = 0

NothingCopied == copied' = 0 /\ arrived' = 0   \* no copy yet with these sizes

kfifo_alloc(size, es) ==
    LET rounded == rounddown_pow_of_two(size)
    IN  /\ data = "NULL"
        /\ in' = 0 /\ out' = 0 /\ esize' = es
        /\ \/ rounded < 2 /\ data' = "NULL" /\ mask' = 0 /\ room' = 0 /\ err' = "EINVAL"
           \/ /\ rounded >= 2
              /\ \/ data' = "NULL" /\ mask' = 0 /\ room' = 0 /\ err' = "ENOMEM"
                 \/ /\ data' = "kmalloc"
                    /\ room' = rounded * es
                    /\ mask' = rounded - 1
                    /\ err' = "0"
        /\ NothingCopied

(* The caller's buffer of that many bytes holds at least one element.       *)
kfifo_init(bytes, es) ==
    LET rounded == rounddown_pow_of_two(bytes \div es)
    IN  /\ data # "kmalloc"
        /\ bytes >= es
        /\ in' = 0 /\ out' = 0 /\ esize' = es
        /\ data' = "caller" /\ room' = bytes
        /\ IF rounded < 2 THEN mask' = 0 /\ err' = "EINVAL"
                          ELSE mask' = rounded - 1 /\ err' = "0"
        /\ NothingCopied

(* Of a fifo that kfifo_alloc made, or failed to make.                      *)
kfifo_free ==
    /\ data # "caller"
    /\ in' = 0 /\ out' = 0 /\ mask' = 0 /\ esize' = 0
    /\ data' = "NULL" /\ room' = 0
    /\ NothingCopied
    /\ UNCHANGED err

DIV_ROUND_DOWN(a, b) == a \div b     \* mutant: a partly copied element counts as copied
DIV_ROUND_UP(a, b) == (a + b - 1) \div b

(* copy_from_user and copy_to_user stop after any number of bytes, in the   *)
(* first or the second part of a range that wraps; what they return counts  *)
(* from there to the end.                                                   *)
Copy(elements, done) ==
    LET bytes == elements * esize
        ret   == DIV_ROUND_UP(bytes - done, esize)
    IN  /\ arrived' = done
        /\ copied' = bytes - ret
        /\ err' = IF ret = 0 THEN "0" ELSE "EFAULT"

Ready == data # "NULL" /\ mask > 0   \* the caller has seen kfifo_alloc or kfifo_init succeed

kfifo_from_user(len, done) ==
    LET l == Least(len \div esize, kfifo_unused)
    IN  /\ Ready
        /\ done <= l * esize
        /\ Copy(l, done)
        /\ in' = Plus(in, l - DIV_ROUND_UP(l * esize - done, esize))
        /\ UNCHANGED <<out, mask, esize, data, room>>

kfifo_to_user(len, done) ==
    LET l == Least(len \div esize, kfifo_len)
    IN  /\ Ready
        /\ done <= l * esize
        /\ Copy(l, done)
        /\ out' = Plus(out, l - DIV_ROUND_UP(l * esize - done, esize))
        /\ UNCHANGED <<in, mask, esize, data, room>>

Lengths == 0..(MaxSize + 1)

SetupNext ==
    \/ \E size \in 1..MaxSize, es \in ESizes : kfifo_alloc(size, es) \/ kfifo_init(size, es)
    \/ kfifo_free
    \/ \E len, done \in Lengths : kfifo_from_user(len, done) \/ kfifo_to_user(len, done)

SetupSpec == SetupInit /\ [][SetupNext]_setup_vars

----------------------------------------------------------------------------
(* Properties.                                                              *)

(* A ring that is ready lies within its memory, whether that was asked for  *)
(* in elements (alloc) or in bytes (init), and its number of slots divides  *)
(* the range of an index, so that masking survives the wrap of the indices. *)
RingFitsMemory ==
    Ready => (mask + 1) * esize <= room /\ mask >= 1 /\ UINT % (mask + 1) = 0

(* A copy that faults publishes exactly the elements that arrived whole:    *)
(* none that are torn, and none too few.  (Or both indices were reset.)     *)
WholeElements ==
    [][\/ in' = 0 /\ out' = 0
       \/ in' = Plus(in, arrived' \div esize) /\ out' = out
       \/ out' = Plus(out, arrived' \div esize) /\ in' = in]_setup_vars
============================================================================
