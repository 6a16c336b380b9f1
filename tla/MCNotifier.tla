---------------------------- MODULE MCNotifier ----------------------------
EXTENDS Notifier, TLC
Symm == Permutations(Stream) \cup Permutations(Thread) \cup Permutations(Uri)
=============================================================================
