------------------------------- MODULE MCIpc -------------------------------
(* Instances of Ipc: the calls that the tasks of kernel/ and fs/ make. *)
EXTENDS IpcRefinement

CONSTANTS tty, hd, fs, user, spin

call(p, fn, c) == [p |-> p, fn |-> fn, peer |-> c]

(* task_tty, task_hd, task_fs, a user process and one that never calls. *)
FileProcs == {tty, hd, fs, user, spin}
FileCalls == {call(tty, "RECEIVE", ANY), call(tty, "SEND", fs),
              call(hd, "RECEIVE", ANY), call(hd, "RECEIVE", INTERRUPT),
              call(hd, "SEND", fs),
              call(fs, "RECEIVE", ANY), call(fs, "BOTH", hd),
              call(fs, "BOTH", tty), call(fs, "SEND", user),
              call(user, "BOTH", fs)}
=============================================================================
