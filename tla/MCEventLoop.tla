----------------------------- MODULE MCEventLoop -----------------------------
(* Instances of EventLoop for TLC: two foreign threads, one I/O channel.     *)
EXTENDS EventLoop

CONSTANTS t1, t2, f1, f2, f3, ch1

MCThreads   == {t1, t2}
MCFunctors  == {f1, f2, f3}
MCChannels  == {ch1}

==============================================================================
