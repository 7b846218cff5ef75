---------------------------- MODULE MCAllocator ----------------------------
(* A heap of at most 16 bytes with a one-byte length and one-byte          *)
(* pointers: room for four blocks of the smallest size.                    *)
EXTENDS Allocator

MCSizes == {0, 1, 4}
MCForeignSizes == {2}
=============================================================================
