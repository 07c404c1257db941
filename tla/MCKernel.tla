------------------------------ MODULE MCKernel -------------------------------
(***************************************************************************)
(* Instances of Kernel for TLC: values of its constants, chosen in the     *)
(* .cfg files by name.                                                     *)
(***************************************************************************)
EXTENDS Kernel

CONSTANTS c0, c1

\* Pages are numbered, and free pages interchangeable: page_alloc takes the
\* lowest one.
LowestFree(S) == {p \in S : \A q \in S : p <= q}

NoImage == {}
OnePageImage == {<<0, 0>>}
FirstVA == <<0, 0>>
SecondVA == <<0, 1>>

ZeroOnly == {0}

AllDiscipline == {"idle_child", "destroy_once", "page_if_asked", "user_tf"}

SchedCalls == {"yield", "env_destroy", "exofork", "env_set_status"}

VmCalls ==
  {"env_destroy", "exofork", "page_alloc", "page_map", "page_unmap",
   "env_set_pgfault_upcall", "env_set_trapframe"}

ReadOnly == {"P", "U"}
ReadWrite == {"P", "U", "W"}
SomePerms == {ReadOnly, ReadWrite}

IpcCalls == SchedCalls \cup {"ipc_try_send", "ipc_recv"}

=============================================================================
