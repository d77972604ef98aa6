-------------------------- MODULE MCEngineShutdown --------------------------
EXTENDS EngineShutdown
CONSTANTS t1, t2

\* Valid lists for up to three tasks, with duplicates.
MCLists == {<<>>, <<1>>, <<2>>, <<1, 1>>, <<1, 2>>, <<3, 1>>}

\* The tasks that reach into others, and those they reach into.
MCFollowed == {"imgui_system", "imgui_backend", "physical_camera",
               "texture_uploader", "text_system", "shader_manager",
               "bindless_manager", "image_heap"}
=============================================================================
