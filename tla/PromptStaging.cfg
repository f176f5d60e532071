CONSTANTS
  images = images
  mixed = mixed
  audio = audio
  empty = empty
  Prompt = {images, mixed, empty, audio}
  Blocks <- MCBlocks
  None = None
  Faults = {"refuse", "timeout", "voice", "close"}
SPECIFICATION Spec
CHECK_DEADLOCK FALSE
INVARIANTS
  NothingLeftBehind
  TurnSeesItsImages
