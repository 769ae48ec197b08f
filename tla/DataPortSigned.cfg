CONSTANTS
  Addr = {0, 1, 2}
  Scratch = {2}
  Data = {0, 1}
  Typ = {1, 2, 5}
  Interrupts = {FALSE}
SPECIFICATION Spec
INVARIANT ExtendedAsAsked
