------------------------------ MODULE Address ------------------------------
(***************************************************************************)
(* Arithmetic on guest addresses (src/src/address.rs, the Address trait    *)
(* and its implementation for GuestAddress and MemoryRegionAddress).  A    *)
(* raw value is an unsigned integer of fixed width; AddrSpace is the       *)
(* number of raw values (2^64 in the code).                                *)
(***************************************************************************)
EXTENDS Integers

CONSTANTS
  AddrSpace,      \* number of raw address values, 2^64 in the code
  OverflowChecks  \* TRUE: built with overflow checks (a plain + or - panics)
                  \* FALSE: built without them (a plain + or - wraps)

ASSUME AddrSpaceAssumption == AddrSpace \in Nat \ {0}
ASSUME OverflowChecksAssumption == OverflowChecks \in BOOLEAN

Raw == 0 .. AddrSpace - 1

default == 0

\* Option::None and "the thread panicked", both outside Raw.
None  == -1
Panic == -2

\* Tagged results, for operations that have several errors.
Ok(v)  == [tag |-> "Ok", val |-> v]
Err(e) == [tag |-> "Err", val |-> e]

\* A plain + or - of raw values whose exact result is x.
plain(x) ==
  IF x \in Raw THEN x
  ELSE IF OverflowChecks THEN Panic ELSE x % AddrSpace

checked_offset_from(addr, base) ==
  IF addr >= base THEN addr - base ELSE None

unchecked_offset_from(addr, base) == plain(addr - base)

checked_add(addr, other) ==
  IF addr + other < AddrSpace THEN addr + other ELSE None

overflowing_add(addr, other) ==
  [value |-> (addr + other) % AddrSpace, overflow |-> addr + other >= AddrSpace]

unchecked_add(addr, offset) == plain(addr + offset)

checked_sub(addr, other) == IF addr >= other THEN addr - other ELSE None

\* Mutation of overflowing_sub: <= for <.
overflowing_sub_lax(addr, other) ==
  [value |-> (addr - other) % AddrSpace, overflow |-> addr <= other]

overflowing_sub(addr, other) ==
  [value |-> (addr - other) % AddrSpace, overflow |-> addr < other]

unchecked_sub(addr, other) == plain(addr - other)

\* The two assertions of checked_align_up, p # 0 and p & (p - 1) = 0: one bit
\* is set, and no odd number but 1 divides p.
IsPowerOfTwo(p) == p # 0 /\ \A d \in 2 .. p : p % d = 0 => d % 2 = 0

\* x & !mask, for the mask of the power of two p.
ClearLow(x, p) == x - (x % p)

\* Mutation of checked_align_up: the whole power of two is added, not its mask.
checked_align_up_past(addr, power_of_two) ==
  IF ~ IsPowerOfTwo(power_of_two) THEN Panic
  ELSE LET sum == checked_add(addr, power_of_two)
       IN  IF sum = None THEN None ELSE ClearLow(sum, power_of_two)

checked_align_up(addr, power_of_two) ==
  IF ~ IsPowerOfTwo(power_of_two) THEN Panic
  ELSE LET sum == checked_add(addr, power_of_two - 1)
       IN  IF sum = None THEN None ELSE ClearLow(sum, power_of_two)

\* Only for a power of two: the code does not check its argument here.
unchecked_align_up(addr, power_of_two) ==
  LET sum == unchecked_add(addr, power_of_two - 1)
  IN  IF sum = Panic THEN Panic ELSE ClearLow(sum, power_of_two)
=============================================================================
