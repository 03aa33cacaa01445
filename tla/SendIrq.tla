------------------------------ MODULE SendIrq ------------------------------
(***************************************************************************)
(* send_irq.c, the program that sends interrupts to the simulator, with    *)
(* the names of arm_constants.c it looks the exception up by.              *)
(***************************************************************************)
EXTENDS ArmException, Sequences

NoName == ""        \* NULL

arm_exception_names ==
    <<"reset", "undefined instruction", "software interrupt", "prefetch abort",
      "data abort", "interrupt", "fast interrupt">>

arm_get_exception_name(exception) ==
    IF exception \in DOMAIN arm_exception_names THEN arm_exception_names[exception] ELSE NoName

\* The first code from RESET on that has the name, or that has none.
Found(name) ==
    CHOOSE irq \in RESET..8 :
        /\ arm_get_exception_name(irq) \in {name, NoName}
        /\ \A before \in RESET..(irq - 1) :
                arm_get_exception_name(before) \notin {name, NoName}

\* The bytes that reach irq_listener when the program is given these names: one
\* of them or none.  It exits before it connects when the name is unknown.
send_irq(names) ==
    LET irq == IF names = <<>> THEN INTERRUPT ELSE Found(names[1])
    IN  IF arm_get_exception_name(irq) = NoName THEN {} ELSE {<<irq>>}

=============================================================================
