-------------------------- MODULE MCPromptStaging --------------------------
(* An instance of PromptStaging: prompts of two images, of an image between a *)
(* text and a file, of nothing, and one refused for its last block, audio.    *)
EXTENDS PromptStaging

CONSTANTS images, mixed, empty, audio

MCBlocks ==
  [p \in Prompt |->
     CASE p = images -> <<"image", "image">>
       [] p = mixed -> <<"text", "image", "file">>
       [] p = empty -> <<>>
       [] p = audio -> <<"image", "audio">>]
=============================================================================
