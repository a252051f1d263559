----------------------------- MODULE MCPackager -----------------------------
(***************************************************************************)
(* Machines for Packager: the packages list the linked C library at the    *)
(* paths ldd gives, and the loader under a second name (dpkg), at other    *)
(* paths (rpm, see packager:142), with a loader only under another name    *)
(* than the one linked, or no loader at all.                               *)
(***************************************************************************)
EXTENDS Packager

Curl   == <<"/usr/lib", "libcurl.so.4">>
Vdso   == <<"", "linux-vdso.so.1">>
Libc   == <<"/lib", "libc.so.6">>
Linked == {Curl, Vdso, Libc}
At(dir, files) == {<<dir, f>> : f \in files}

Host(linked, listed) ==
  [linked |-> linked, listed |-> listed, files |-> (linked \cup listed) \ {Vdso}]

MCHosts == {
  Host(Linked \cup At("/lib", {"ld-linux.so.2"}), At("/lib", {"libc.so.6", "ld-linux.so.2", "ld-2.31.so"})),
  Host(Linked \cup At("/lib64", {"ld-linux.so.2"}),
       At("/usr/lib64", {"libc.so.6", "ld-linux.so.2"})),
  Host(Linked, At("/lib", {"libc.so.6", "ld-2.31.so"})),
  Host(Linked, At("/lib", {"libc.so.6"})) }
=============================================================================
