------------------------------ MODULE BufferPool ------------------------------
(***************************************************************************)
(* BufferPool and BufferHandle (buffer_pool.hpp).  A handle is an object   *)
(* that is constructed, moved from and to, and destroyed; free_list_ is a  *)
(* stack that takes what is given back without looking, so that a buffer   *)
(* given back twice would lie in it twice.  mutex_ makes acquire() and     *)
(* release_buffer() one step each, and what a handle does besides is       *)
(* private to the thread that has it.  The length of what a buffer holds   *)
(* is left out.  Module Gateway uses the pool through its set of free      *)
(* buffers and the two handles of every Connection.                        *)
(***************************************************************************)
EXTENDS Naturals, Sequences

CONSTANTS
  Bufs,      \* the buffers, by index
  Handles,   \* memory for BufferHandle objects
  NoBuffer   \* the index -1, the null pointer

VARIABLES
  free_list,
  handle     \* the BufferHandle objects

pool_vars == <<free_list, handle>>

\* alive: constructed and not yet destroyed; pool: pool_ is not null.  data_ is
\* given as the buffer it points into.
Handle == [alive : BOOLEAN, pool : BOOLEAN, index : Bufs \cup {NoBuffer}, data : Bufs \cup {NoBuffer}]

Empty == [alive |-> TRUE, pool |-> FALSE, index |-> NoBuffer, data |-> NoBuffer]
Dead == [alive |-> FALSE, pool |-> FALSE, index |-> NoBuffer, data |-> NoBuffer]
Holding(b) == [alive |-> TRUE, pool |-> TRUE, index |-> b, data |-> b]

\* The constructor fills free_list_ with every index.
PoolInit ==
  /\ free_list \in Seq(Bufs)
  /\ \A b \in Bufs : \E i \in DOMAIN free_list : free_list[i] = b
  /\ \A i, j \in DOMAIN free_list : free_list[i] = free_list[j] => i = j
  /\ handle = [h \in Handles |-> Dead]

\* Whether release() gives anything back.
Owns(h) == handle[h].alive /\ handle[h].pool /\ handle[h].index # NoBuffer

\* release() on h, by its effect on the free list.
Released(h) == IF Owns(h) THEN Append(free_list, handle[h].index) ELSE free_list

\* A default-constructed handle.
Construct(h) ==
  /\ ~handle[h].alive
  /\ handle' = [handle EXCEPT ![h] = Empty]
  /\ UNCHANGED free_list

\* acquire() into a new handle: the last of the list, or an empty handle.
Acquire(h) ==
  /\ ~handle[h].alive
  /\ \/ /\ free_list # <<>>
        /\ handle' = [handle EXCEPT ![h] = Holding(free_list[Len(free_list)])]
        /\ free_list' = SubSeq(free_list, 1, Len(free_list) - 1)
     \/ /\ free_list = <<>>
        /\ handle' = [handle EXCEPT ![h] = Empty]
        /\ UNCHANGED free_list

\* The source of a move keeps all but pool_.
MovedFrom(g) == [handle[g] EXCEPT !.pool = FALSE]

MoveConstruct(h, g) ==
  /\ ~handle[h].alive /\ handle[g].alive
  /\ handle' = [handle EXCEPT ![h] = handle[g], ![g] = MovedFrom(g)]
  /\ UNCHANGED free_list

\* A handle moved to itself stays as it is.
MoveAssign(h, g) ==
  /\ h # g /\ handle[h].alive /\ handle[g].alive
  /\ free_list' = Released(h)
  /\ handle' = [handle EXCEPT ![h] = handle[g], ![g] = MovedFrom(g)]

Destroy(h) ==
  /\ handle[h].alive
  /\ free_list' = Released(h)
  /\ handle' = [handle EXCEPT ![h] = Dead]

PoolNext ==
  \E h \in Handles :
    \/ Construct(h) \/ Acquire(h) \/ Destroy(h)
    \/ \E g \in Handles : MoveConstruct(h, g) \/ MoveAssign(h, g)

PoolSpec == PoolInit /\ [][PoolNext]_pool_vars

-----------------------------------------------------------------------------
(* Properties                                                              *)

\* Every variable has its type.
PoolTypeOK == free_list \in Seq(Bufs) /\ handle \in [Handles -> Handle]

\* No buffer is given out twice: it lies at most once in the free list, is owned
\* by at most one handle, and never both, however handles are moved.
NotShared ==
  /\ \A i, j \in DOMAIN free_list : free_list[i] = free_list[j] => i = j
  /\ \A h \in Handles : Owns(h) => \A i \in DOMAIN free_list : free_list[i] # handle[h].index
  /\ \A h, g \in Handles : Owns(h) /\ Owns(g) /\ handle[h].index = handle[g].index => h = g

\* No buffer is lost: it is free or owned.
NotLost ==
  \A b \in Bufs : \/ \E i \in DOMAIN free_list : free_list[i] = b
                  \/ \E h \in Handles : Owns(h) /\ handle[h].index = b

\* What a caller relies on when valid() is false, and when it uses the data of a
\* handle that owns its buffer: the one owns nothing, the other's data is its own.
\* (That valid() implies ownership, as test_buffer.cpp:120 says of a handle moved
\* from, does not hold: the source of a move keeps data_.)
DataIsOwned ==
  \A h \in Handles : Owns(h) => handle[h].data = handle[h].index
=============================================================================
