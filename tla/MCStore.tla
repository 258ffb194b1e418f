------------------------------- MODULE MCStore -------------------------------
(* Model values of the settings store's runs.                              *)
EXTENDS SettingsStore, TLC

\* The inodes are interchangeable, and so are the threads.
InodeSymmetry  == Permutations(Inodes)
ThreadSymmetry == Permutations(Inodes) \cup Permutations(Threads)

\* All but a failed read.
WriteFaults == {"io", "crash", "power"}
==============================================================================
