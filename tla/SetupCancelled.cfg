SPECIFICATION Spec
CONSTANTS
  Urls = {u1}
  Remote = {openai, groq}
  Ollama = ollama
  None = none
  MaxRuns = 1
  u1 = u1
  openai = openai
  groq = groq
  ollama = ollama
  none = none
INVARIANT CancelChangesNothing
CHECK_DEADLOCK FALSE
